---------------------------- MODULE Spec2Model ----------------------------
(***************************************************************************)
(* Model of the book-note scripts of guppy57/scripts:                      *)
(*   src/clean-book-notes.py   (BookNote, BookAPIClient, BookNotesCleaner) *)
(*   src/create-book-notes.py  (BookAPIClient, BookNoteCreator)            *)
(*                                                                         *)
(* Python values are tagged records ([t |-> "none"], [t |-> "str", ...])   *)
(* so that truthiness, None and the empty string stay distinct.  Strings   *)
(* are TLA+ strings; the string functions below compute on characters.     *)
(***************************************************************************)
EXTENDS Integers, Sequences, FiniteSets, TLC

VARIABLES
    \* ---- clean-book-notes.py: BookNotesCleaner.run
    vault,        \* the note files of books_dir: a sequence of frontmatter records
    disk,         \* the files below the vault's base path (cover images), by relative path
    catalog,      \* the record the external catalogs hold for the book being looked up
    cleanPc,      \* "scan" | "done" | "crashed"
    idx,          \* position of run's loop in md_files
    runs,         \* number of executions of run started so far
    book,         \* the BookNote parsed in the last iteration
    api_data,     \* the api_data of the last iteration
    updates,      \* the updates dict of the last iteration
    trace,        \* what the last iteration did (calls made, download, save)
    applied       \* per note, the api_data and the keys of the updates last saved to it

VARIABLES
    \* ---- create-book-notes.py: BookNoteCreator.create_book_note
    bookFiles,    \* the note files of books_dir, by file name
    creates,      \* number of create_book_note calls so far
    downloads,    \* per cover path, the downloads that wrote the file
    created       \* what the last create_book_note call did

VARIABLES
    \* ---- create-book-notes.py: BookAPIClient.search_books_by_title_author
    entered,      \* the title and author the user entered
    olRecord,     \* the record Open Library holds for the query, or None
    searched      \* what the last search_books_by_title_author call did

VARIABLES
    \* ---- create-book-notes.py: BookAPIClient.search_multiple_sources
    futures,      \* future_to_source: per source, the state of its future
    clock,        \* seconds since the futures were submitted
    collected,    \* the results list
    fanPc         \* "idle" | "collecting" | "returned"

VARIABLES
    \* ---- the source adapters of both scripts
    adapterCall   \* the last adapter call: its arguments, the reply, the outcome

VARIABLES
    \* ---- create-book-notes.py: relevance_score, sort and truncation
    ranking,      \* the last ranking: the query, the deduplicated list, the result
    \* ---- clean-book-notes.py: BookAPIClient.search_by_isbn
    isbnCall,     \* the last search_by_isbn call: its argument and its requests
    \* ---- create-book-notes.py: the loop of search_books_by_title_author, call by call
    resolution,   \* the adapter calls of the loop, each pending, running or done, and all_results
    \* ---- clean-book-notes.py: "Handle local cover" in two runs of the script at once
    race          \* per run its position in the step, what it saw and what it did

cleanVars == <<vault, catalog, cleanPc, idx, runs, book, api_data, updates,
               trace, applied>>

createVars == <<bookFiles, creates, downloads, created>>

searchVars == <<entered, olRecord, searched>>

fanVars == <<futures, clock, collected, fanPc>>

adapterVars == <<adapterCall>>

pureVars == <<ranking, isbnCall, resolution, race>>

vars == <<disk, cleanVars, createVars, searchVars, fanVars, adapterVars, pureVars>>

\* What the cleaner leaves alone
CleanerOnly == UNCHANGED <<createVars, searchVars, fanVars, adapterVars, pureVars>>

\* What create_book_note leaves alone
CreatorOnly == UNCHANGED <<cleanVars, searchVars, fanVars, adapterVars, pureVars>>

\* What search_books_by_title_author leaves alone
SearchOnly == UNCHANGED <<disk, cleanVars, createVars, fanVars, adapterVars, pureVars>>

\* What search_multiple_sources leaves alone
FanoutOnly == UNCHANGED <<disk, cleanVars, createVars, searchVars, adapterVars, pureVars>>

\* What the ranking and search_by_isbn leave alone
PureOnly == UNCHANGED <<disk, cleanVars, createVars, searchVars, fanVars, adapterVars>>

\* What an adapter leaves alone
AdapterOnly == UNCHANGED <<disk, cleanVars, createVars, searchVars, fanVars, pureVars>>

-----------------------------------------------------------------------------
(* Strings *)

CharAt(s, i) == SubSeq(s, i, i)

Digits == {"0", "1", "2", "3", "4", "5", "6", "7", "8", "9"}

LowerAlphabet == "abcdefghijklmnopqrstuvwxyz"

UpperAlphabet == "ABCDEFGHIJKLMNOPQRSTUVWXYZ"

LowerChars == {CharAt(LowerAlphabet, i) : i \in 1..26}

UpperChars == {CharAt(UpperAlphabet, i) : i \in 1..26}

Whitespace == {" ", "\t", "\n"}

\* re's \w (letters, digits, underscore), \s and the hyphen: the class [\w\s-]
WordSpaceHyphen == LowerChars \cup UpperChars \cup Digits \cup {"_", "-"} \cup Whitespace

RECURSIVE KeepChars(_, _)
\* re.sub(r'[^<class>]', '', s): the characters of s that are in the class
KeepChars(s, class) ==
    IF s = "" THEN ""
    ELSE (IF CharAt(s, 1) \in class THEN CharAt(s, 1) ELSE "")
             \o KeepChars(SubSeq(s, 2, Len(s)), class)

StartsWith(s, p) == Len(p) <= Len(s) /\ SubSeq(s, 1, Len(p)) = p

RECURSIVE Replace(_, _, _)
\* str.replace(old, new) for a non-empty old: leftmost, non-overlapping
Replace(s, old, new) ==
    IF s = "" THEN ""
    ELSE IF StartsWith(s, old)
         THEN new \o Replace(SubSeq(s, Len(old) + 1, Len(s)), old, new)
         ELSE CharAt(s, 1) \o Replace(SubSeq(s, 2, Len(s)), old, new)

RECURSIVE LStrip(_, _)
LStrip(s, class) ==
    IF s # "" /\ CharAt(s, 1) \in class THEN LStrip(SubSeq(s, 2, Len(s)), class) ELSE s

RECURSIVE RStrip(_, _)
RStrip(s, class) ==
    IF s # "" /\ CharAt(s, Len(s)) \in class
    THEN RStrip(SubSeq(s, 1, Len(s) - 1), class) ELSE s

\* str.strip(chars)
StripChars(s, class) == RStrip(LStrip(s, class), class)

\* str.strip()
Strip(s) == StripChars(s, Whitespace)

-----------------------------------------------------------------------------
(* Python values *)

PyNone == [t |-> "none"]

PyStr(s) == [t |-> "str", v |-> s]

PyList(q) == [t |-> "list", v |-> q]

PyInt(n) == [t |-> "int", v |-> n]

\* bool(x); the dicts of the model are adapter records, which are never empty
Truthy(x) ==
    CASE x.t = "none" -> FALSE
      [] x.t = "str"  -> x.v # ""
      [] x.t = "list" -> x.v # <<>>
      [] x.t = "int"  -> x.v # 0
      [] x.t = "dict" -> TRUE

\* str(x) of a str or an int
ToStr(x) == IF x.t = "str" THEN x.v ELSE ToString(x.v)


RECURSIVE MapChars(_, _, _)
\* s with every character of the string from replaced by the one at its place in to
MapChars(s, from, to) ==
    IF s = "" THEN ""
    ELSE LET c == CharAt(s, 1)
             hit == {i \in 1..Len(from) : CharAt(from, i) = c}
         IN  (IF hit = {} THEN c ELSE CharAt(to, CHOOSE i \in hit : TRUE))
                 \o MapChars(SubSeq(s, 2, Len(s)), from, to)

\* str.upper() and str.lower() (ASCII letters)
Upper(s) == MapChars(s, LowerAlphabet, UpperAlphabet)

Lower(s) == MapChars(s, UpperAlphabet, LowerAlphabet)

-----------------------------------------------------------------------------
(* clean-book-notes.py: BookNote *)

\* The frontmatter keys BookNote reads and run may update
NoteKeys == {"title", "subtitle", "author", "category", "publisher", "publish",
             "total", "isbn", "cover", "localCover"}

\* BookNote._extract_value
ExtractValue(value) ==
    CASE value.t = "none" -> PyNone
      [] value.t = "list" /\ value.v # <<>> -> PyStr(value.v[1])
      [] value.t = "str" ->
            IF value.v # "" /\ Strip(value.v) # "" /\ Strip(value.v) # "''"
            THEN value ELSE PyNone
      [] OTHER -> IF Truthy(value) THEN PyStr(ToStr(value)) ELSE PyNone

\* str(v).strip().strip('"').strip("'")
StripQuotes(s) == StripChars(StripChars(Strip(s), {"\""}), {"'"})

NonEmptyStr(s) == s # ""

\* BookNote._extract_list
ExtractList(value) ==
    CASE value.t = "list" -> LET kept == SelectSeq(value.v, NonEmptyStr)
                             IN  PyList([i \in 1..Len(kept) |-> StripQuotes(kept[i])])
      [] value.t = "str" /\ value.v # "" -> PyList(<<StripQuotes(value.v)>>)
      [] OTHER -> PyList(<<>>)

\* BookNote.from_file: the fields parsed from a file's frontmatter
FromFile(fm) ==
    [title      |-> ExtractValue(fm.title),
     subtitle   |-> ExtractValue(fm.subtitle),
     author     |-> ExtractList(fm.author),
     category   |-> ExtractList(fm.category),
     publisher  |-> ExtractValue(fm.publisher),
     publish    |-> ExtractValue(fm.publish),
     total      |-> fm.total,
     isbn       |-> ExtractValue(fm.isbn),
     cover      |-> ExtractValue(fm.cover),
     localCover |-> ExtractValue(fm.localCover)]

\* Path.exists() of base_path / rel
Exists(dsk, rel) == rel \in DOMAIN dsk

\* BookNote.get_missing_fields: the labels, in the order they are appended
GetMissingFields(b, dsk) ==
    (IF ~Truthy(b.title) THEN <<"title">> ELSE <<>>)
    \o (IF ~Truthy(b.author) THEN <<"author">> ELSE <<>>)
    \o (IF ~Truthy(b.isbn) THEN <<"ISBN">> ELSE <<>>)
    \o (IF ~Truthy(b.publisher) THEN <<"publisher">> ELSE <<>>)
    \o (IF ~Truthy(b.publish) THEN <<"publish date">> ELSE <<>>)
    \o (IF ~Truthy(b.total) THEN <<"page count">> ELSE <<>>)
    \o (IF ~Truthy(b.cover) THEN <<"cover URL">> ELSE <<>>)
    \o (IF ~Truthy(b.localCover) THEN <<"local cover path">>
        ELSE IF ~Exists(dsk, b.localCover.v)
             THEN <<"local cover file (path exists but file missing)">>
             ELSE <<>>)

\* BookNote.update_and_save: the frontmatter after the updates were applied.
\* yaml.dump followed by yaml.safe_load returns the str, int, list and None
\* values of the frontmatter as they were.
UpdateFrontmatter(fm, upd) ==
    [k \in NoteKeys |->
        IF k \in DOMAIN upd /\ upd[k].t # "none"
        THEN (IF k \in {"author", "category"} /\ upd[k].t # "list"
              THEN (IF k = "author"
                    THEN PyList(<<"[[" \o ToStr(upd[k]) \o "]]">>)
                    ELSE PyList(<<ToStr(upd[k])>>))
              ELSE upd[k])
        ELSE fm[k]]

-----------------------------------------------------------------------------
(* clean-book-notes.py: BookAPIClient *)

RECURSIVE DropFirstOutside(_, _)
\* re.sub(r'[^<class>]', '', s, count=1): s without its first character that
\* is not in the class
DropFirstOutside(s, class) ==
    IF s = "" THEN ""
    ELSE IF CharAt(s, 1) \in class
         THEN CharAt(s, 1) \o DropFirstOutside(SubSeq(s, 2, Len(s)), class)
         ELSE SubSeq(s, 2, Len(s))

\* A cleaning step that substitutes once only
CleanIsbnOnce(isbn) == DropFirstOutside(Upper(isbn), Digits \cup {"X"})

\* search_by_isbn's cleaning step: re.sub(r'[^0-9X]', '', isbn.upper())
CleanIsbn(isbn) == KeepChars(Upper(isbn), Digits \cup {"X"})

\* What the catalogs answer to the requests of one iteration: per request the
\* catalog's record (TRUE) or nothing, which is also what every failure of an
\* adapter gives.  A request is only made when every earlier one gave nothing,
\* so the answers that differ in what run sees are those with one TRUE at most.
Answers ==
    {a \in [gIsbn : BOOLEAN, olIsbn : BOOLEAN, gTitle : BOOLEAN, olTitle : BOOLEAN] :
        Cardinality({k \in DOMAIN a : a[k]}) <= 1}

\* search_by_isbn: Google Books first, Open Library only when it gave nothing.
\* _fetch_open_library_isbn's record carries the queried isbn.
SearchByIsbn(isbn, cat, ans) ==
    LET isbn_clean == CleanIsbn(isbn)
        google == [src |-> "google", q |-> "isbn:" \o isbn_clean]
        ol == [src |-> "openlibrary_isbn", q |-> isbn_clean]
    IN  IF ans.gIsbn
        THEN [data |-> cat, calls |-> <<google>>]
        ELSE [data |-> IF ans.olIsbn
                       THEN [cat EXCEPT !.isbn = PyStr(isbn_clean)]
                       ELSE PyNone,
              calls |-> <<google, ol>>]

\* search_by_title_author: Google Books first, Open Library as the fallback
SearchByTitleAuthor(title, author, cat, ans) ==
    LET query == IF author # "" THEN title \o " " \o author ELSE title
        google == [src |-> "google", q |-> query]
        ol == [src |-> "openlibrary", q |-> title]
    IN  IF ans.gTitle
        THEN [data |-> cat, calls |-> <<google>>]
        ELSE [data |-> IF ans.olTitle THEN cat ELSE PyNone,
              calls |-> <<google, ol>>]

\* How one download_cover call goes: the GET (transport and status), then
\* mkdir and open(save_path, 'wb'), then f.write
DownloadOutcomes == {"ok", "get_fails", "open_fails", "write_fails"}

\* download_cover (the same in both scripts): open(.., 'wb') creates or
\* truncates the file before f.write runs; every exception gives False and
\* nothing is removed.
DownloadCover(dsk, save_path, how) ==
    LET others == DOMAIN dsk \ {save_path}
        with(content) == [p \in others \cup {save_path} |->
                             IF p = save_path THEN content ELSE dsk[p]]
    IN  CASE how = "get_fails"   -> [ok |-> FALSE, disk |-> dsk, fetched |-> TRUE]
          [] how = "open_fails"  -> [ok |-> FALSE, disk |-> dsk, fetched |-> TRUE]
          [] how = "write_fails" -> [ok |-> FALSE, disk |-> with("partial"), fetched |-> TRUE]
          [] how = "ok"          -> [ok |-> TRUE, disk |-> with("image"), fetched |-> TRUE]

-----------------------------------------------------------------------------
(* clean-book-notes.py: BookNotesCleaner.run *)

EmptyDict == <<>>

\* relative_cover_path; covers_dir is base_path / "References/Attachments/Book Search Covers"
RelativeCoverPath(cover_filename) ==
    "References/Attachments/Book Search Covers/" \o cover_filename

\* re.sub(r'[^\w\s-]', '', s)
Sanitize(s) == KeepChars(s, WordSpaceHyphen)

\* author.replace('[[', '').replace(']]', '')
StripLinkBrackets(s) == Replace(Replace(s, "[[", ""), "]]", "")

\* A lookup that searches by title first and by ISBN as the fallback
LookUpTitleFirst(b, cat, ans) ==
    LET none == [data |-> PyNone, calls |-> <<>>]
        author == IF Truthy(b.author) THEN StripLinkBrackets(b.author.v[1]) ELSE ""
        byTitle == IF Truthy(b.title)
                   THEN SearchByTitleAuthor(b.title.v, author, cat, ans)
                   ELSE none
        byIsbn == IF ~Truthy(byTitle.data) /\ Truthy(b.isbn)
                  THEN SearchByIsbn(b.isbn.v, cat, ans)
                  ELSE none
    IN  [data  |-> IF Truthy(byTitle.data) THEN byTitle.data ELSE byIsbn.data,
         calls |-> byTitle.calls \o byIsbn.calls]

\* run, "Try ISBN first if available" and "Fallback to title/author search"
LookUp(b, cat, ans) ==
    LET none == [data |-> PyNone, calls |-> <<>>]
        byIsbn == IF Truthy(b.isbn) THEN SearchByIsbn(b.isbn.v, cat, ans) ELSE none
        author == IF Truthy(b.author) THEN StripLinkBrackets(b.author.v[1]) ELSE ""
        byTitle == IF ~Truthy(byIsbn.data) /\ Truthy(b.title)
                   THEN SearchByTitleAuthor(b.title.v, author, cat, ans)
                   ELSE none
    IN  [data  |-> IF Truthy(byIsbn.data) THEN byIsbn.data ELSE byTitle.data,
         calls |-> byIsbn.calls \o byTitle.calls]

\* The api_data key each note key is filled from
ApiKey ==
    [title |-> "title", subtitle |-> "subtitle", author |-> "authors",
     publisher |-> "publisher", publish |-> "publishedDate", total |-> "pageCount",
     isbn |-> "isbn", cover |-> "coverUrl", category |-> "categories"]

WrapLink(a) == "[[" \o a \o "]]"

\* run, "Prepare updates": the nine `if not book.f and api_data.get(g)` statements
PrepareUpdates(b, api) ==
    LET keys == {k \in DOMAIN ApiKey : ~Truthy(b[k]) /\ Truthy(api[ApiKey[k]])}
    IN  [k \in keys |->
            IF k = "author" THEN PyList([i \in 1..Len(api.authors.v) |-> WrapLink(api.authors.v[i])])
            ELSE api[ApiKey[k]]]

\* run, "Generate local cover filename".  re.sub raises TypeError when neither
\* the note nor api_data has a title (api_data always has the key, so the
\* 'Unknown' default is never used).
CoverFilename(b, api) ==
    LET title == IF Truthy(b.title) THEN b.title ELSE api.title
        title_clean == Sanitize(title.v)
        author_clean ==
            IF Truthy(api.authors) THEN Sanitize(api.authors.v[1])
            ELSE IF Truthy(b.author) THEN Sanitize(StripLinkBrackets(b.author.v[1]))
            ELSE ""
        date_clean == IF Truthy(api.publishedDate) THEN api.publishedDate.v ELSE ""
    IN  IF title.t # "str" THEN [exc |-> TRUE, name |-> ""]
        ELSE [exc |-> FALSE,
              name |-> IF author_clean # "" /\ date_clean # ""
                       THEN author_clean \o " - " \o title_clean \o " - " \o date_clean \o ".jpg"
                       ELSE IF author_clean # ""
                       THEN author_clean \o " - " \o title_clean \o ".jpg"
                       ELSE title_clean \o ".jpg"]

NoCover == [exc |-> FALSE, set |-> FALSE, path |-> "", existed |-> FALSE,
            fetched |-> FALSE, ok |-> FALSE]

\* A cover step that records the path whatever download_cover returned
HandleLocalCoverUnchecked(b, api, dsk, how) ==
    IF ~Truthy(api.coverUrl) THEN [NoCover EXCEPT !.exc = FALSE] @@ [disk |-> dsk]
    ELSE LET fn == CoverFilename(b, api)
             rel == RelativeCoverPath(fn.name)
             dl == DownloadCover(dsk, rel, how)
         IN  IF fn.exc THEN [NoCover EXCEPT !.exc = TRUE] @@ [disk |-> dsk]
             ELSE IF ~Exists(dsk, rel)
             THEN [exc |-> FALSE, set |-> TRUE, path |-> rel, existed |-> FALSE,
                   fetched |-> dl.fetched, ok |-> dl.ok, disk |-> dl.disk]
             ELSE [exc |-> FALSE, set |-> TRUE, path |-> rel, existed |-> TRUE,
                   fetched |-> FALSE, ok |-> TRUE, disk |-> dsk]

\* run, "Handle local cover": whether updates gets 'localCover', and the disk after
HandleLocalCover(b, api, dsk, how) ==
    IF ~Truthy(api.coverUrl) THEN [NoCover EXCEPT !.exc = FALSE] @@ [disk |-> dsk]
    ELSE LET fn == CoverFilename(b, api)
             rel == RelativeCoverPath(fn.name)
             dl == DownloadCover(dsk, rel, how)
         IN  IF fn.exc THEN [NoCover EXCEPT !.exc = TRUE] @@ [disk |-> dsk]
             ELSE IF ~Exists(dsk, rel)
             THEN [exc |-> FALSE, set |-> dl.ok, path |-> rel, existed |-> FALSE,
                   fetched |-> dl.fetched, ok |-> dl.ok, disk |-> dl.disk]
             ELSE [exc |-> FALSE, set |-> TRUE, path |-> rel, existed |-> TRUE,
                   fetched |-> FALSE, ok |-> TRUE, disk |-> dsk]

\* run, from "Prepare updates" to "Apply updates": the updates dict
BuildUpdates(b, api, cov) ==
    IF cov.set
    THEN ("localCover" :> PyStr(cov.path)) @@ PrepareUpdates(b, api)
    ELSE PrepareUpdates(b, api)

-----------------------------------------------------------------------------
(* The notes and catalog records the cleaner is run on *)

\* How often run is executed on the vault
MaxRuns == 2

OldCoverPath == RelativeCoverPath("Old Author - Dune.jpg")

\* A note's frontmatter with every field filled in
FullNote ==
    [title      |-> PyStr("Dune"),
     subtitle   |-> PyStr("Old Sub"),
     author     |-> PyList(<<"[[Old Author]]">>),
     category   |-> PyList(<<"Old Cat">>),
     publisher  |-> PyStr("Old Pub"),
     publish    |-> PyInt(1965),
     total      |-> PyInt(412),
     isbn       |-> PyStr("0-441-01359-7"),
     cover      |-> PyStr("http://old/cover.jpg"),
     localCover |-> PyStr(OldCoverPath)]

\* The ways a field is absent, empty or invalid in a frontmatter
BlankNote ==
    [title      |-> PyNone,
     subtitle   |-> PyStr(""),
     author     |-> PyList(<<>>),
     category   |-> PyNone,
     publisher  |-> PyStr("''"),
     publish    |-> PyNone,
     total      |-> PyInt(0),
     isbn       |-> PyStr(""),
     cover      |-> PyStr(" "),
     localCover |-> PyNone]

NoteMissing(missing) == [k \in NoteKeys |-> IF k \in missing THEN BlankNote[k] ELSE FullNote[k]]

\* The notes of the initial vault: at most one field missing, at most one
\* field present, and the note that has title and author but no isbn,
\* publisher or cover
InitialMissing ==
    {m \in SUBSET NoteKeys : Cardinality(m) <= 1 \/ Cardinality(m) >= 9}
    \cup {{"isbn", "publisher", "cover", "localCover"}, {"isbn", "publisher", "cover"}}

ApiKeys == {"title", "subtitle", "authors", "publisher", "publishedDate",
            "pageCount", "categories", "isbn", "coverUrl"}

FullRecord ==
    [t             |-> "dict",
     title         |-> PyStr("Dune: Deluxe"),
     subtitle      |-> PyStr("New Sub"),
     authors       |-> PyList(<<"Frank Herbert">>),
     publisher     |-> PyStr("Ace"),
     publishedDate |-> PyStr("1990"),
     pageCount     |-> PyInt(896),
     categories    |-> PyList(<<"Fiction">>),
     isbn          |-> PyStr("9780441013593"),
     coverUrl      |-> PyStr("http://new/cover.jpg")]

\* What the adapters put where the source has no value
BlankRecord ==
    [t             |-> "dict",
     title         |-> PyNone,
     subtitle      |-> PyNone,
     authors       |-> PyList(<<>>),
     publisher     |-> PyNone,
     publishedDate |-> PyStr(""),
     pageCount     |-> PyNone,
     categories    |-> PyList(<<>>),
     isbn          |-> PyNone,
     coverUrl      |-> PyNone]

RecordSupplying(keys) ==
    [k \in ApiKeys \cup {"t"} |-> IF k \in keys \cup {"t"} THEN FullRecord[k] ELSE BlankRecord[k]]

\* The catalog records: every field supplied, or every field but one
Catalogs ==
    {RecordSupplying(ks) : ks \in {x \in SUBSET ApiKeys : Cardinality(x) >= 8}}

\* No search_books_by_title_author call yet
NotSearched ==
    [called |-> FALSE, raised |-> FALSE, terms |-> <<>>, all_results |-> <<>>,
     unique_results |-> <<>>, returned |-> <<>>]

\* No create_book_note call yet
NotCreated ==
    [called |-> FALSE, ret |-> FALSE, book |-> PyNone, filename |-> "",
     coverPath |-> "", coverExisted |-> FALSE, fetched |-> FALSE,
     downloaded |-> FALSE, localCover |-> "", diskBefore |-> EmptyDict,
     filesBefore |-> EmptyDict, content |-> PyNone, declined |-> FALSE]

\* No search_multiple_sources call yet
NoFutures == <<>>

\* No adapter call yet
NoCall ==
    [called |-> FALSE, adapter |-> "", args |-> <<>>, failure |-> FALSE,
     reply |-> PyNone, author_reply |-> PyNone, raised |-> FALSE, value |-> PyNone]

\* No ranking yet
NotRanked ==
    [called |-> FALSE, title |-> "", author |-> "", unique_results |-> <<>>,
     scores |-> <<>>, returned |-> <<>>]

\* No search_by_isbn call yet
NoIsbnCall == [called |-> FALSE, isbn |-> "", calls |-> <<>>, data |-> PyNone]

\* search_books_by_title_author not called yet
NotResolving == [pc |-> "idle", tasks |-> <<>>, all_results |-> <<>>]

\* No run of the cleaner is at its cover step
NoRace == [serialized |-> FALSE, ops |-> <<>>]

\* The variables of the dispatcher, the adapters and the client before any call
Uncalled ==
    /\ futures = NoFutures
    /\ clock = 0
    /\ collected = <<>>
    /\ fanPc = "idle"
    /\ adapterCall = NoCall
    /\ ranking = NotRanked
    /\ isbnCall = NoIsbnCall
    /\ resolution = NotResolving
    /\ race = NoRace

NeverApplied == [api |-> PyNone, keys |-> {}]

NoTrace ==
    [i |-> 0, response |-> "", calls |-> <<>>, built |-> FALSE, cover |-> NoCover,
     saved |-> FALSE, diskBefore |-> EmptyDict, prevApplied |-> NeverApplied]

InitClean ==
    /\ vault \in {<<NoteMissing(m)>> : m \in InitialMissing}
    /\ disk \in {EmptyDict, [p \in {OldCoverPath} |-> "image"]}
    /\ catalog \in Catalogs
    /\ cleanPc = "scan"
    /\ idx = 1
    /\ runs = 1
    /\ book = FromFile(BlankNote)
    /\ api_data = PyNone
    /\ updates = EmptyDict
    /\ trace = NoTrace
    /\ applied = [i \in 1..Len(vault) |-> NeverApplied]
    /\ bookFiles = EmptyDict
    /\ creates = 0
    /\ downloads = EmptyDict
    /\ created = NotCreated
    /\ entered = [title |-> "", author |-> ""]
    /\ olRecord = PyNone
    /\ searched = NotSearched
    /\ Uncalled

-----------------------------------------------------------------------------
(* BookNotesCleaner.run: one action per way an iteration of its loop goes *)

\* What the user types at the prompt, after strip().lower()
Responses == {"y", "n", "skip", ""}

Scanning == cleanPc = "scan" /\ idx <= Len(vault)

Parsed == FromFile(vault[idx])

Seen(response, calls) ==
    [NoTrace EXCEPT !.i = idx, !.response = response, !.calls = calls,
                    !.diskBefore = disk, !.prevApplied = applied[idx]]

\* "All fields complete": continue
ProcessComplete ==
    /\ Scanning
    /\ \E b \in {Parsed} :
          /\ GetMissingFields(b, disk) = <<>>
          /\ book' = b
    /\ api_data' = PyNone
    /\ updates' = EmptyDict
    /\ trace' = Seen("", <<>>)
    /\ idx' = idx + 1
    /\ UNCHANGED <<vault, disk, catalog, cleanPc, runs, applied>>
    /\ CleanerOnly

\* A loop in which 'skip' goes on to the next note
ProcessSkipContinues ==
    /\ Scanning
    /\ \E b \in {Parsed} :
          /\ GetMissingFields(b, disk) # <<>>
          /\ book' = b
    /\ api_data' = PyNone
    /\ updates' = EmptyDict
    /\ trace' = Seen("skip", <<>>)
    /\ idx' = idx + 1
    /\ UNCHANGED <<vault, disk, catalog, cleanPc, runs, applied>>
    /\ CleanerOnly

\* The user answers 'skip': break
ProcessSkip ==
    /\ Scanning
    /\ \E b \in {Parsed} :
          /\ GetMissingFields(b, disk) # <<>>
          /\ book' = b
    /\ api_data' = PyNone
    /\ updates' = EmptyDict
    /\ trace' = Seen("skip", <<>>)
    /\ cleanPc' = "done"
    /\ UNCHANGED <<vault, disk, catalog, idx, runs, applied>>
    /\ CleanerOnly

\* The user answers anything but 'y' and 'skip': continue
ProcessDecline ==
    /\ Scanning
    /\ \E b \in {Parsed} :
          /\ GetMissingFields(b, disk) # <<>>
          /\ book' = b
    /\ \E response \in Responses \ {"y", "skip"} :
          trace' = Seen(response, <<>>)
    /\ api_data' = PyNone
    /\ updates' = EmptyDict
    /\ idx' = idx + 1
    /\ UNCHANGED <<vault, disk, catalog, cleanPc, runs, applied>>
    /\ CleanerOnly

\* The user answers 'y' and no lookup gives a record: continue
ProcessNoData ==
    /\ Scanning
    /\ \E b \in {Parsed} :
          /\ GetMissingFields(b, disk) # <<>>
          /\ book' = b
          /\ \E ans \in Answers :
                \E found \in {LookUp(b, catalog, ans)} :
                   /\ ~Truthy(found.data)
                   /\ trace' = Seen("y", found.calls)
    /\ api_data' = PyNone
    /\ updates' = EmptyDict
    /\ idx' = idx + 1
    /\ UNCHANGED <<vault, disk, catalog, cleanPc, runs, applied>>
    /\ CleanerOnly

\* The user answers 'y' and a lookup gives a record: the updates are built,
\* the cover is acquired, and update_and_save writes the note (saveOk) or
\* fails on the file (it then returns False).  re.sub's TypeError in the
\* cover file name ends run.
ProcessFix ==
    /\ Scanning
    /\ \E b \in {Parsed} :
          /\ GetMissingFields(b, disk) # <<>>
          /\ book' = b
          /\ \E ans \in Answers :
                \E found \in {LookUp(b, catalog, ans)} :
                   /\ Truthy(found.data)
                   /\ api_data' = found.data
                   /\ \E how \in DownloadOutcomes, saveOk \in BOOLEAN :
                         \E cov \in {HandleLocalCover(b, found.data, disk, how)} :
                            \E upd \in {BuildUpdates(b, found.data, cov)} :
                               \E save \in {upd # EmptyDict /\ saveOk} :
                                  /\ disk' = cov.disk
                                  /\ IF cov.exc
                                     THEN /\ cleanPc' = "crashed"
                                          /\ updates' = PrepareUpdates(b, found.data)
                                          /\ trace' = Seen("y", found.calls)
                                          /\ UNCHANGED <<vault, idx, applied>>
                                     ELSE /\ updates' = upd
                                          /\ trace' = [Seen("y", found.calls) EXCEPT
                                                          !.built = TRUE, !.saved = save,
                                                          !.cover = [k \in DOMAIN NoCover |-> cov[k]]]
                                          /\ vault' = IF save
                                                      THEN [vault EXCEPT ![idx] = UpdateFrontmatter(@, upd)]
                                                      ELSE vault
                                          /\ applied' = IF save
                                                        THEN [applied EXCEPT ![idx] =
                                                                 [api |-> found.data, keys |-> DOMAIN upd]]
                                                        ELSE applied
                                          /\ idx' = idx + 1
                                          /\ UNCHANGED cleanPc
    /\ UNCHANGED <<catalog, runs>>
    /\ CleanerOnly

\* The loop is over: "Cleaning complete!"
FinishRun ==
    /\ cleanPc = "scan"
    /\ idx > Len(vault)
    /\ cleanPc' = "done"
    /\ UNCHANGED <<vault, disk, catalog, idx, runs, book, api_data, updates, trace, applied>>
    /\ CleanerOnly

\* main() is run again on the same vault
RunAgain ==
    /\ cleanPc \in {"done", "crashed"}
    /\ runs < MaxRuns
    /\ cleanPc' = "scan"
    /\ idx' = 1
    /\ runs' = runs + 1
    /\ UNCHANGED <<vault, disk, catalog, book, api_data, updates, trace, applied>>
    /\ CleanerOnly

NextClean ==
    \/ ProcessComplete
    \/ ProcessSkip
    \/ ProcessDecline
    \/ ProcessNoData
    \/ ProcessFix
    \/ FinishRun
    \/ RunAgain

SpecClean == InitClean /\ [][NextClean]_vars

-----------------------------------------------------------------------------
(* Field backfill: claims C1 to C3 *)

\* Field k is present and valid on the note b as run parsed it: it is truthy
\* and, for the local cover path, the file it names exists
PresentValid(b, dsk, k) ==
    /\ Truthy(b[k])
    /\ k = "localCover" => Exists(dsk, b.localCover.v)

\* C1: non-destructive merge.  Whenever run has built the updates for a note,
\* no field that was present and valid on the note is a key of the updates,
\* for each of the ten backfillable fields.
C1_NonDestructiveMerge ==
    trace.built =>
        \A k \in NoteKeys :
            PresentValid(book, trace.diskBefore, k) => k \notin DOMAIN updates

\* C2: backfill idempotence.  When the updates of a note are built from the
\* same api_data whose updates were last saved to that note, no field of the
\* saved updates is offered again.
C2_BackfillIdempotent ==
    (trace.built /\ trace.prevApplied.api = api_data) =>
        DOMAIN updates \cap trace.prevApplied.keys = {}

\* The fields the backfill is to offer: those absent, empty or invalid on the
\* note for which the candidate supplies a value - for the local cover path,
\* a cover that was acquired
ExpectedDelta ==
    {k \in DOMAIN ApiKey :
        ~PresentValid(book, trace.diskBefore, k) /\ Truthy(api_data[ApiKey[k]])}
    \cup {k \in {"localCover"} :
            ~PresentValid(book, trace.diskBefore, k) /\ trace.cover.ok}

\* C3: exact backfill delta.  Whenever run has built the updates for a note,
\* their keys are exactly the fields that are absent, empty or invalid on the
\* note and that the candidate supplies.
C3_ExactDelta ==
    trace.built => DOMAIN updates = ExpectedDelta

-----------------------------------------------------------------------------
(* create-book-notes.py: BookNoteCreator *)

\* The places where a run of four digits starts in s
YearStarts(s) ==
    {i \in 1..(Len(s) - 3) : \A j \in 0..3 : CharAt(s, i + j) \in Digits}

\* re.search(r'\d{4}', s).group(), or "" when there is no match
FirstYear(s) ==
    IF YearStarts(s) = {} THEN ""
    ELSE LET i == CHOOSE a \in YearStarts(s) : \A c \in YearStarts(s) : a <= c
         IN  SubSeq(s, i, i + 3)

RECURSIVE Split(_, _)
\* s.split(sep) for a one-character sep
Split(s, sep) ==
    LET at == {i \in 1..Len(s) : CharAt(s, i) = sep}
    IN  IF at = {} THEN <<s>>
        ELSE LET i == CHOOSE a \in at : \A c \in at : a <= c
             IN  <<SubSeq(s, 1, i - 1)>> \o Split(SubSeq(s, i + 1, Len(s)), sep)

\* An extraction that takes the first part of a pair for the ISBN-13
IsbnPartsThirteenFirst(isbn_data) ==
    IF ~Truthy(isbn_data) THEN <<"", "">>
    ELSE LET whole == isbn_data.v
             split == Split(whole, ",")
             parts == [i \in 1..Len(split) |-> Strip(split[i])]
             ByLength(x) ==
                 LET n == Len(Replace(x, "-", ""))
                 IN  IF n = 10 THEN <<x, "">>
                     ELSE IF n = 13 THEN <<"", x>>
                     ELSE <<"", "">>
         IN  IF Len(split) > 1
             THEN (IF Len(parts) >= 2 THEN <<parts[2], parts[1]>> ELSE ByLength(parts[1]))
             ELSE ByLength(whole)

\* _process_template, "Extract ISBN parts": <<isbn10, isbn13>>
IsbnParts(isbn_data) ==
    IF ~Truthy(isbn_data) THEN <<"", "">>
    ELSE LET whole == isbn_data.v
             split == Split(whole, ",")
             parts == [i \in 1..Len(split) |-> Strip(split[i])]
             ByLength(x) ==
                 LET n == Len(Replace(x, "-", ""))
                 IN  IF n = 10 THEN <<x, "">>
                     ELSE IF n = 13 THEN <<"", x>>
                     ELSE <<"", "">>
         IN  IF Len(split) > 1
             THEN (IF Len(parts) >= 2 THEN <<parts[1], parts[2]>> ELSE ByLength(parts[1]))
             ELSE ByLength(whole)

\* _process_template: the values put into the template's slots.  str.replace
\* raises TypeError for a value that is None.
ProcessTemplate(bk, local_cover_filename) ==
    LET isbn == IsbnParts(bk.isbn)
        primary_author == IF Truthy(bk.authors) THEN bk.authors.v[1] ELSE "Unknown"
        primary_category == IF Truthy(bk.categories) THEN bk.categories.v[1] ELSE "General"
        publish_date ==
            IF Truthy(bk.publishedDate) /\ Len(bk.publishedDate.v) = 4
            THEN PyStr(bk.publishedDate.v \o "-01-01")
            ELSE bk.publishedDate
        strs == {bk.title, bk.subtitle, bk.publisher, publish_date, bk.coverUrl}
    IN  IF \E x \in strs : x.t # "str"
        THEN [exc |-> TRUE, content |-> PyNone]
        ELSE [exc |-> FALSE,
              content |->
                [t |-> "dict",
                 title |-> bk.title.v,
                 subtitle |-> bk.subtitle.v,
                 author |-> primary_author,
                 category |-> primary_category,
                 publisher |-> bk.publisher.v,
                 publishDate |-> publish_date.v,
                 totalPage |-> IF bk.pageCount.t = "none" THEN "None" ELSE ToStr(bk.pageCount),
                 isbn10 |-> isbn[1],
                 isbn13 |-> isbn[2],
                 coverUrl |-> bk.coverUrl.v,
                 localCoverImage |-> local_cover_filename]]

\* create_book_note, "Generate filename": the name without its extension.
\* re.sub raises on a title that is no str, authors[0] on an empty list.
NoteBaseName(bk) ==
    IF bk.title.t # "str" \/ ~Truthy(bk.authors)
    THEN [exc |-> TRUE, name |-> ""]
    ELSE LET title_clean == Sanitize(bk.title.v)
             author_clean == Sanitize(bk.authors.v[1])
             found == IF Truthy(bk.publishedDate) THEN FirstYear(bk.publishedDate.v) ELSE ""
             year == IF found # "" THEN " - " \o found ELSE ""
         IN  [exc |-> FALSE, name |-> author_clean \o " - " \o title_clean \o year]

\* The one thing that goes wrong during a create_book_note call, if any
CreateFaults == {"none", "template_unreadable", "get_fails", "cover_open_fails",
                 "cover_write_fails", "note_open_fails", "note_write_fails"}

\* How download_cover goes under a fault
DownloadUnder(fault) ==
    CASE fault = "get_fails" -> "get_fails"
      [] fault = "cover_open_fails" -> "open_fails"
      [] fault = "cover_write_fails" -> "write_fails"
      [] OTHER -> "ok"

\* create_book_note, "Handle cover image": download_cover is called whenever
\* the book has a coverUrl
HandleCoverImage(bk, base, dsk, fault) ==
    LET rel == RelativeCoverPath(base \o ".jpg")
        dl == DownloadCover(dsk, rel, DownloadUnder(fault))
    IN  IF ~Truthy(bk.coverUrl)
        THEN [path |-> "", existed |-> FALSE, fetched |-> FALSE, ok |-> FALSE,
              local |-> "", disk |-> dsk]
        ELSE [path |-> rel, existed |-> Exists(dsk, rel), fetched |-> dl.fetched,
              ok |-> dl.ok, local |-> IF dl.ok THEN rel ELSE "", disk |-> dl.disk]

\* What open(filepath, 'w') leaves when the write after it fails
TruncatedFile == [t |-> "truncated"]

\* create_book_note: what it returns and what is on disk afterwards
CreateBookNoteResult(bk, dsk, files, fault, overwrite) ==
    LET base == NoteBaseName(bk)
        filename == base.name \o ".md"
        cov == HandleCoverImage(bk, base.name, dsk, fault)
        tpl == ProcessTemplate(bk, cov.local)
        out == [NotCreated EXCEPT !.called = TRUE, !.book = bk,
                                  !.diskBefore = dsk, !.filesBefore = files]
        others == DOMAIN files \ {filename}
        with(content) == [f \in others \cup {filename} |->
                             IF f = filename THEN content ELSE files[f]]
        covered == [out EXCEPT !.filename = filename, !.coverPath = cov.path,
                               !.coverExisted = cov.existed, !.fetched = cov.fetched,
                               !.downloaded = cov.ok, !.localCover = cov.local]
    IN  IF fault = "template_unreadable" \/ base.exc
        THEN [out |-> out, disk |-> dsk, files |-> files]
        ELSE IF tpl.exc
        THEN [out |-> covered, disk |-> cov.disk, files |-> files]
        ELSE IF filename \in DOMAIN files /\ overwrite # "y"
        THEN [out |-> [covered EXCEPT !.content = tpl.content, !.declined = TRUE],
              disk |-> cov.disk, files |-> files]
        ELSE IF fault = "note_open_fails"
        THEN [out |-> [covered EXCEPT !.content = tpl.content],
              disk |-> cov.disk, files |-> files]
        ELSE IF fault = "note_write_fails"
        THEN [out |-> [covered EXCEPT !.content = tpl.content],
              disk |-> cov.disk, files |-> with(TruncatedFile)]
        ELSE [out |-> [covered EXCEPT !.content = tpl.content, !.ret = TRUE],
              disk |-> cov.disk, files |-> with(tpl.content)]

-----------------------------------------------------------------------------
(* BookNoteCreator.create_book_note as an action *)

\* How many notes are created in a row
MaxCreates == 2

\* The books the user may select: the full record and the records that lack
\* one thing or carry another ISBN or date format
SelectedBooks ==
    {FullRecord,
     [FullRecord EXCEPT !.coverUrl = PyNone],
     [FullRecord EXCEPT !.authors = PyList(<<>>)],
     [FullRecord EXCEPT !.subtitle = PyNone],
     [FullRecord EXCEPT !.publishedDate = PyStr("")],
     [FullRecord EXCEPT !.publishedDate = PyStr("June 1, 1965")],
     [FullRecord EXCEPT !.isbn = PyStr("0441013597, 9780441013593")],
     [FullRecord EXCEPT !.isbn = PyStr("0441013597")],
     [FullRecord EXCEPT !.isbn = PyNone]}

\* The cover file of FullRecord, as both scripts name it
NewCoverPath == RelativeCoverPath("Frank Herbert - Dune Deluxe - 1990.jpg")

InitCreate ==
    /\ disk \in {EmptyDict, [p \in {NewCoverPath} |-> "image"]}
    /\ bookFiles = EmptyDict
    /\ creates = 0
    /\ downloads = EmptyDict
    /\ created = NotCreated
    /\ entered = [title |-> "", author |-> ""]
    /\ olRecord = PyNone
    /\ searched = NotSearched
    /\ Uncalled
    /\ vault = <<>>
    /\ catalog = FullRecord
    /\ cleanPc = "done"
    /\ idx = 1
    /\ runs = 1
    /\ book = FromFile(BlankNote)
    /\ api_data = PyNone
    /\ updates = EmptyDict
    /\ trace = NoTrace
    /\ applied = <<>>

\* One call of create_book_note(selected_book), with the user's answer to the
\* overwrite prompt
CreateBookNote ==
    /\ creates < MaxCreates
    /\ \E bk \in SelectedBooks, fault \in CreateFaults, overwrite \in {"y", "n"} :
          \E r \in {CreateBookNoteResult(bk, disk, bookFiles, fault, overwrite)} :
             /\ disk' = r.disk
             /\ bookFiles' = r.files
             /\ created' = r.out
             /\ downloads' =
                   IF r.out.downloaded
                   THEN [p \in DOMAIN downloads \cup {r.out.coverPath} |->
                            IF p = r.out.coverPath
                            THEN (IF p \in DOMAIN downloads THEN downloads[p] ELSE 0) + 1
                            ELSE downloads[p]]
                   ELSE downloads
    /\ creates' = creates + 1
    /\ CreatorOnly

NextCreate == CreateBookNote

SpecCreate == InitCreate /\ [][NextCreate]_vars

-----------------------------------------------------------------------------
(* Cover acquisition: claims C9 and C10 *)

\* C9: cover idempotency.  When create_book_note acquires a cover whose file
\* already exists at the target path, it performs no fetch, leaves the file
\* as it is and records the cover as acquired; and no cover path is
\* downloaded more than once.
C9_CoverIdempotent ==
    /\ (created.called /\ created.coverPath # "" /\ created.coverExisted) =>
          /\ ~created.fetched
          /\ disk[created.coverPath] = created.diskBefore[created.coverPath]
          /\ created.localCover = created.coverPath
    /\ \A p \in DOMAIN downloads : downloads[p] <= 1

\* C10: all-or-nothing cover write.  When the cleaner's download_cover call
\* returns False, no file exists at the target path (the cleaner only calls
\* it for a path that did not exist).
C10_NoPartialCover ==
    (trace.built /\ trace.cover.fetched /\ ~trace.cover.ok) =>
        ~Exists(disk, trace.cover.path)

-----------------------------------------------------------------------------
(* create-book-notes.py: BookAPIClient.search_books_by_title_author *)

\* a in b, for strings
Contains(b, a) == \E i \in 1..(Len(b) - Len(a) + 1) : SubSeq(b, i, i + Len(a) - 1) = a

DigitString == "0123456789"

DigitValue(c) == (CHOOSE i \in 1..10 : CharAt(DigitString, i) = c) - 1

RECURSIVE ParseInt(_)
\* int(s) of a string of digits
ParseInt(s) ==
    IF s = "" THEN 0
    ELSE 10 * ParseInt(SubSeq(s, 1, Len(s) - 1)) + DigitValue(CharAt(s, Len(s)))

\* search_terms
SearchTerms(title, author) ==
    <<Strip(title \o " " \o author),
      IF author # ""
      THEN "intitle:\"" \o title \o "\" inauthor:\"" \o author \o "\""
      ELSE "intitle:\"" \o title \o "\"",
      title>>

\* The deduplication key of one result.  result.get('isbn', '') is None for a
\* record without isbn (the adapters always set the key), and None.replace
\* raises; authors[0] raises on an empty list; both keys are computed for
\* every result.
DedupKey(result) ==
    IF result.isbn.t # "str" \/ result.title.t # "str" \/ ~Truthy(result.authors)
    THEN [exc |-> TRUE, key |-> ""]
    ELSE LET isbn_key == Replace(Replace(result.isbn.v, ",", ""), " ", "")
             title_key == Strip(Lower(result.title.v)) \o "_"
                              \o Strip(Lower(result.authors.v[1]))
         IN  [exc |-> FALSE, key |-> IF isbn_key # "" THEN isbn_key ELSE title_key]

RECURSIVE DedupFrom(_, _, _)
\* The deduplication loop over the results not yet visited
DedupFrom(rest, seen, unique_results) ==
    IF rest = <<>> THEN [exc |-> FALSE, unique |-> unique_results]
    ELSE LET k == DedupKey(Head(rest))
         IN  IF k.exc THEN [exc |-> TRUE, unique |-> <<>>]
             ELSE IF k.key # "" /\ k.key \notin seen
             THEN DedupFrom(Tail(rest), seen \cup {k.key}, Append(unique_results, Head(rest)))
             ELSE DedupFrom(Tail(rest), seen, unique_results)

\* "Deduplicate by ISBN or title+author"
Deduplicate(all_results) == DedupFrom(all_results, {}, <<>>)

Min(a, b) == IF a <= b THEN a ELSE b

\* relevance_score without the cap of the date points
RelevanceScoreUncapped(bk, title, author) ==
    LET book_title == Lower(bk.title.v)
        search_title == Lower(title)
        titleScore ==
            IF book_title = search_title THEN 100
            ELSE IF Contains(book_title, search_title) \/ Contains(search_title, book_title)
            THEN 50 ELSE 0
        authorScore ==
            IF author # "" /\ \E i \in 1..Len(bk.authors.v) :
                                 \/ Contains(Lower(bk.authors.v[i]), Lower(author))
                                 \/ Contains(Lower(author), Lower(bk.authors.v[i]))
            THEN 30 ELSE 0
        year == IF Truthy(bk.publishedDate) THEN FirstYear(bk.publishedDate.v) ELSE ""
        dateScore == IF year # "" THEN ParseInt(year) - 1900 ELSE 0
    IN  titleScore + authorScore + dateScore

\* relevance_score
RelevanceScore(bk, title, author) ==
    LET book_title == Lower(bk.title.v)
        search_title == Lower(title)
        titleScore ==
            IF book_title = search_title THEN 100
            ELSE IF Contains(book_title, search_title) \/ Contains(search_title, book_title)
            THEN 50 ELSE 0
        authorScore ==
            IF author # "" /\ \E i \in 1..Len(bk.authors.v) :
                                 \/ Contains(Lower(bk.authors.v[i]), Lower(author))
                                 \/ Contains(Lower(author), Lower(bk.authors.v[i]))
            THEN 30 ELSE 0
        year == IF Truthy(bk.publishedDate) THEN FirstYear(bk.publishedDate.v) ELSE ""
        dateScore == IF year # "" THEN Min(ParseInt(year) - 1900, 25) ELSE 0
    IN  titleScore + authorScore + dateScore

RECURSIVE ScoreEach(_, _, _)
\* The key of every element: relevance_score is called once per element
ScoreEach(results, title, author) ==
    IF results = <<>> THEN <<>>
    ELSE <<RelevanceScore(Head(results), title, author)>>
             \o ScoreEach(Tail(results), title, author)

\* results in descending order of score, equal scores in reverse order
SortTiesReversed(results, score) ==
    LET n == Len(results)
        place(i) == 1 + Cardinality({j \in 1..n :
                                        \/ score[j] > score[i]
                                        \/ score[j] = score[i] /\ j > i})
    IN  [k \in 1..n |-> results[CHOOSE i \in 1..n : place(i) = k]]

\* list.sort(key=..., reverse=True) given the keys: descending and stable
SortDescending(results, score) ==
    LET n == Len(results)
        place(i) == 1 + Cardinality({j \in 1..n :
                                        \/ score[j] > score[i]
                                        \/ score[j] = score[i] /\ j < i})
    IN  [k \in 1..n |-> results[CHOOSE i \in 1..n : place(i) = k]]

\* unique_results.sort(key=relevance_score, reverse=True)
SortByRelevance(results, title, author) ==
    SortDescending(results, ScoreEach(results, title, author))

\* unique_results[:5]
TopN == 5

\* search_books_by_title_author after the collection loop: deduplicate, sort,
\* truncate
DedupAndRank(all_results, title, author) ==
    LET dedup == Deduplicate(all_results)
        sorted == SortByRelevance(dedup.unique, title, author)
    IN  IF dedup.exc
        THEN [raised |-> TRUE, unique_results |-> <<>>, returned |-> <<>>]
        ELSE [raised |-> FALSE, unique_results |-> dedup.unique,
              returned |-> SubSeq(sorted, 1, Min(TopN, Len(sorted)))]

WithSource(result, source) == result @@ [source |-> source]

\* The collection loop: per search term the results of
\* _search_google_books_multiple, then the result of _search_open_library
\* when it is truthy
Collect(google, ol) ==
    LET one(i) == google[i] \o (IF Truthy(ol[i]) THEN <<WithSource(ol[i], "openlibrary")>> ELSE <<>>)
    IN  one(1) \o one(2) \o one(3)

-----------------------------------------------------------------------------
(* search_books_by_title_author as an action *)

\* How many items one Google Books response holds at most
MaxItems == 1

DuneHyphenated ==
    [FullRecord EXCEPT !.title = PyStr("Dune"), !.isbn = PyStr("978-0-441-01359-3")]

DunePlain ==
    [FullRecord EXCEPT !.title = PyStr("Dune"), !.isbn = PyStr("9780441013593"),
                       !.publishedDate = PyStr("1965")]

MessiahSpaced ==
    [FullRecord EXCEPT !.title = PyStr("Dune Messiah"),
                       !.isbn = PyStr("0441172695, 9780441172696")]

MessiahTight ==
    [FullRecord EXCEPT !.title = PyStr("Dune Messiah"),
                       !.isbn = PyStr("0441172695,9780441172696"),
                       !.publishedDate = PyStr("1969")]

ChildrenNoIsbn ==
    [FullRecord EXCEPT !.title = PyStr("Children of Dune"), !.isbn = PyNone,
                       !.publishedDate = PyNone]

DuneNoAuthors ==
    [FullRecord EXCEPT !.title = PyStr("Dune"), !.authors = PyList(<<>>)]

\* The records the sources may return
Pool == {DuneHyphenated, DunePlain, MessiahSpaced, MessiahTight, ChildrenNoIsbn,
         DuneNoAuthors, BlankRecord}

\* The records Google Books may return
GooglePool == {DuneHyphenated, DunePlain, MessiahTight, DuneNoAuthors}

RECURSIVE ListsOver(_, _)
\* The sequences over set of length n at most
ListsOver(set, n) ==
    IF n = 0 THEN {<<>>}
    ELSE LET shorter == ListsOver(set, n - 1)
         IN  shorter \cup {Append(q, x) : q \in shorter, x \in set}

\* What _search_google_books_multiple may return: the empty list (also on
\* every failure) or the formatted items, tagged with their source
GoogleAnswers == ListsOver({WithSource(r, "google") : r \in GooglePool}, MaxItems)

InitSearch ==
    /\ entered \in {[title |-> "Dune", author |-> "Herbert"],
                    [title |-> "Dune", author |-> ""]}
    /\ olRecord \in Pool \cup {PyNone}
    /\ searched = NotSearched
    /\ Uncalled
    /\ disk = EmptyDict
    /\ bookFiles = EmptyDict
    /\ creates = 0
    /\ downloads = EmptyDict
    /\ created = NotCreated
    /\ vault = <<>>
    /\ catalog = FullRecord
    /\ cleanPc = "done"
    /\ idx = 1
    /\ runs = 1
    /\ book = FromFile(BlankNote)
    /\ api_data = PyNone
    /\ updates = EmptyDict
    /\ trace = NoTrace
    /\ applied = <<>>

\* The one call of search_books_by_title_author(title, author) that a run of
\* the creator makes.  Each of the three _search_open_library(title, author)
\* calls gives Open Library's record or, when it fails, None.
SearchBooks ==
    /\ ~searched.called
    /\ \E google \in [1..3 -> GoogleAnswers], olOk \in [1..3 -> BOOLEAN] :
          \E all_results \in {Collect(google, [i \in 1..3 |-> IF olOk[i] THEN olRecord ELSE PyNone])} :
             \E r \in {DedupAndRank(all_results, entered.title, entered.author)} :
                searched' = [called |-> TRUE, raised |-> r.raised,
                             terms |-> SearchTerms(entered.title, entered.author),
                             all_results |-> all_results,
                             unique_results |-> r.unique_results,
                             returned |-> r.returned]
    /\ UNCHANGED <<entered, olRecord>>
    /\ SearchOnly

NextSearch == SearchBooks

SpecSearch == InitSearch /\ [][NextSearch]_vars

-----------------------------------------------------------------------------
(* Deduplication and failure handling of the search: claims C4 and C8 *)

\* An ISBN string without its separators
BareIsbn(isbn) == KeepChars(isbn, Digits \cup {"X", "x"})

HasIsbn(r) == r.isbn.t = "str" /\ BareIsbn(r.isbn.v) # ""

\* C4: dedup collapse across ISBN formatting.  When a search returns, for
\* every ISBN among the raw results, the records whose ISBN differs from it
\* only in separators (hyphens, spaces, commas) are collapsed into one retained
\* record, the first of them in the raw list.
C4_DedupCollapse ==
    (searched.called /\ ~searched.raised) =>
        \A i \in 1..Len(searched.all_results) :
            LET raw == searched.all_results
                uniq == searched.unique_results
                same(r) == HasIsbn(r) /\ BareIsbn(r.isbn.v) = BareIsbn(raw[i].isbn.v)
                first == CHOOSE a \in 1..i : same(raw[a]) /\ \A c \in 1..i : same(raw[c]) => a <= c
                kept == {k \in 1..Len(uniq) : same(uniq[k])}
            IN  HasIsbn(raw[i]) =>
                    /\ Cardinality(kept) = 1
                    /\ \A k \in kept : uniq[k] = raw[first]

\* C8: no failure in resolution is fatal.  Every search_books_by_title_author
\* call returns a list and does not raise, whatever the adapters returned, and
\* returns the empty list when no adapter returned a record.
C8_SearchNeverRaises ==
    searched.called =>
        /\ ~searched.raised
        /\ searched.all_results = <<>> => searched.returned = <<>>

-----------------------------------------------------------------------------
(* create-book-notes.py: BookAPIClient.search_multiple_sources *)

\* The sources in the order the futures are submitted
Sources == <<"google", "openlibrary">>

\* future.result(timeout=10)
Deadline == 10

\* The last second the clock reaches
MaxClock == 12

Running == [state |-> "running", result |-> PyNone, at |-> 0, yielded |-> FALSE]

\* What the task of a source may return: a record or None
FanAnswers(source) ==
    IF source = "google" THEN {PyNone, DunePlain} ELSE {PyNone, DuneHyphenated}

\* The futures as_completed may yield next: the finished ones not yet yielded
Yieldable == {i \in 1..Len(Sources) : futures[Sources[i]].state = "done"
                                        /\ ~futures[Sources[i]].yielded}

InitFanout ==
    /\ Uncalled
    /\ entered = [title |-> "Dune", author |-> "Herbert"]
    /\ olRecord = PyNone
    /\ searched = NotSearched
    /\ disk = EmptyDict
    /\ bookFiles = EmptyDict
    /\ creates = 0
    /\ downloads = EmptyDict
    /\ created = NotCreated
    /\ vault = <<>>
    /\ catalog = FullRecord
    /\ cleanPc = "done"
    /\ idx = 1
    /\ runs = 1
    /\ book = FromFile(BlankNote)
    /\ api_data = PyNone
    /\ updates = EmptyDict
    /\ trace = NoTrace
    /\ applied = <<>>

\* results = [] and the two executor.submit calls; with max_workers=2 both
\* tasks start at once
Submit ==
    /\ fanPc = "idle"
    /\ futures' = [i \in {Sources[1], Sources[2]} |-> Running]
    /\ collected' = <<>>
    /\ fanPc' = "collecting"
    /\ UNCHANGED clock
    /\ FanoutOnly

\* A second passes while the dispatcher is in the with block
Tick ==
    /\ fanPc = "collecting"
    /\ clock < MaxClock
    /\ clock' = clock + 1
    /\ UNCHANGED <<futures, collected, fanPc>>
    /\ FanoutOnly

\* The task of a source returns; a task that never returns never takes this step
TaskCompletes ==
    /\ fanPc = "collecting"
    /\ \E i \in 1..Len(Sources) :
          /\ futures[Sources[i]].state = "running"
          /\ \E result \in FanAnswers(Sources[i]) :
                futures' = [futures EXCEPT ![Sources[i]] =
                               [state |-> "done", result |-> result, at |-> clock,
                                yielded |-> FALSE]]
    /\ UNCHANGED <<clock, collected, fanPc>>
    /\ FanoutOnly

\* One iteration of "for future in as_completed(future_to_source)": the
\* future is finished, so future.result(timeout=10) returns at once
CollectNext ==
    /\ fanPc = "collecting"
    /\ \E i \in Yieldable :
          LET source == Sources[i]
              result == futures[source].result
          IN  /\ futures' = [futures EXCEPT ![source].yielded = TRUE]
              /\ collected' = IF Truthy(result)
                              THEN Append(collected, WithSource(result, source))
                              ELSE collected
    /\ UNCHANGED <<clock, fanPc>>
    /\ FanoutOnly

\* as_completed is exhausted once every future has been yielded; the with
\* block ends (shutdown(wait=True)) and results is returned
ReturnResults ==
    /\ fanPc = "collecting"
    /\ \A i \in 1..Len(Sources) : futures[Sources[i]].yielded
    /\ fanPc' = "returned"
    /\ UNCHANGED <<futures, clock, collected>>
    /\ FanoutOnly

NextFanout == Submit \/ Tick \/ TaskCompletes \/ CollectNext \/ ReturnResults

SpecFanout == InitFanout /\ [][NextFanout]_vars

-----------------------------------------------------------------------------
(* Order and deadline of the fan-out: claims C5 and C6 *)

\* The truthy results of the tasks in the order of Sources
PriorityOrder ==
    LET one(i) == IF Truthy(futures[Sources[i]].result)
                  THEN <<WithSource(futures[Sources[i]].result, Sources[i])>> ELSE <<>>
    IN  one(1) \o one(2)

\* C5: deterministic fan-out order.  The list search_multiple_sources returns
\* holds the results in the fixed order of the sources (google, then
\* openlibrary), whichever task finished first.
C5_DeterministicOrder ==
    fanPc = "returned" => collected = PriorityOrder

\* The dispatcher can take no step of its own: it waits for a running task
WaitingForTask ==
    /\ fanPc = "collecting"
    /\ Yieldable = {}
    /\ \E i \in 1..Len(Sources) : futures[Sources[i]].state = "running"

\* C6: a slow or dead source never blocks resolution.  Once the deadline has
\* passed the dispatcher is not waiting for a task any more, and the list it
\* returns holds no result of a task that finished after the deadline.
C6_DeadlineRespected ==
    /\ clock > Deadline => ~WaitingForTask
    /\ fanPc = "returned" =>
          \A k \in 1..Len(collected) : futures[collected[k].source].at <= Deadline

-----------------------------------------------------------------------------
(* HTTP replies and the Python operations the adapters apply to a payload.
   In a payload a list of strings holds the strings themselves; a list of
   objects holds tagged values. *)

\* A body response.json() cannot parse
NotJson == [t |-> "notjson"]

\* The statuses the services answer with
Statuses == {200, 404, 500}

\* session.get raised (connection error, timeout)
TransportError == [transport |-> "error", status |-> 0, body |-> NotJson]

HttpReply(status, body) == [transport |-> "ok", status |-> status, body |-> body]

\* The outcome of a block of statements: an exception or a value
Raised == [exc |-> TRUE, value |-> PyNone]

Returned(v) == [exc |-> FALSE, value |-> v]

\* session.get(...); response.raise_for_status(); response.json()
GetJson(reply) ==
    IF reply.transport # "ok" THEN Raised
    ELSE IF reply.status >= 400 /\ reply.status < 600 THEN Raised
    ELSE IF reply.body.t = "notjson" THEN Raised
    ELSE Returned(reply.body)

\* session.get(...); response.json(), without raise_for_status
GetJsonAnyStatus(reply) ==
    IF reply.transport # "ok" \/ reply.body.t = "notjson" THEN Raised
    ELSE Returned(reply.body)

\* key in x, for a dict, a list of strings or a str; a TypeError otherwise
In(key, x) ==
    CASE x.t = "dict" -> Returned(key \in DOMAIN x)
      [] x.t = "list" -> Returned(\E i \in 1..Len(x.v) : x.v[i] = key)
      [] x.t = "str"  -> Returned(Contains(x.v, key))
      [] OTHER        -> Raised

\* d.get(key, default) of a dict
Get(d, key, default) == IF key \in DOMAIN d THEN d[key] ELSE default

\* d.get(key)
GetOrNone(d, key) == Get(d, key, PyNone)

\* Whether "for x in v" and len(v) work on v
Iterable(v) == v.t \in {"list", "str"}

\* str(x)
Str(x) == IF x.t = "none" THEN "None" ELSE ToStr(x)

\* q[:n]
Prefix(q, n) == SubSeq(q, 1, Min(n, Len(q)))

-----------------------------------------------------------------------------
(* create-book-notes.py: the Google Books adapters *)

RECURSIVE ScanIdentifiers(_, _, _)
\* The loop "for identifier in identifiers": <<isbn_10, isbn_13>> after it
ScanIdentifiers(rest, isbn_10, isbn_13) ==
    IF rest = <<>> THEN Returned(<<isbn_10, isbn_13>>)
    ELSE LET identifier == Head(rest)
         IN  IF identifier.t # "dict" \/ "type" \notin DOMAIN identifier THEN Raised
             ELSE IF identifier.type = PyStr("ISBN_10")
             THEN IF "identifier" \notin DOMAIN identifier THEN Raised
                  ELSE ScanIdentifiers(Tail(rest), identifier.identifier, isbn_13)
             ELSE IF identifier.type = PyStr("ISBN_13")
             THEN IF "identifier" \notin DOMAIN identifier THEN Raised
                  ELSE ScanIdentifiers(Tail(rest), isbn_10, identifier.identifier)
             ELSE ScanIdentifiers(Tail(rest), isbn_10, isbn_13)

\* "Extract ISBNs": the value of result['isbn']
ExtractIsbns(volume) ==
    LET identifiers == Get(volume, "industryIdentifiers", PyList(<<>>))
    IN  IF identifiers.t # "list" THEN Raised
        ELSE LET found == ScanIdentifiers(identifiers.v, PyNone, PyNone)
             IN  IF found.exc THEN Raised
                 ELSE LET isbn_10 == found.value[1]
                          isbn_13 == found.value[2]
                      IN  Returned(IF Truthy(isbn_10) /\ Truthy(isbn_13)
                                   THEN PyStr(Str(isbn_10) \o ", " \o Str(isbn_13))
                                   ELSE IF Truthy(isbn_13) THEN isbn_13
                                   ELSE IF Truthy(isbn_10) THEN isbn_10
                                   ELSE PyNone)

\* "Get cover URL": the value of result['coverUrl']
ExtractCover(volume) ==
    IF "imageLinks" \notin DOMAIN volume THEN Returned(PyNone)
    ELSE LET links == volume.imageLinks
             large == In("large", links)
         IN  IF large.exc THEN Raised
             ELSE IF links.t # "dict"
             THEN IF large.value \/ In("medium", links).value \/ In("thumbnail", links).value
                  THEN Raised ELSE Returned(PyNone)
             ELSE IF large.value THEN Returned(links.large)
             ELSE IF "medium" \in DOMAIN links THEN Returned(links.medium)
             ELSE IF "thumbnail" \in DOMAIN links
             THEN IF links.thumbnail.t # "str" THEN Raised
                  ELSE Returned(PyStr(Replace(links.thumbnail.v, "&edge=curl", "")))
             ELSE Returned(PyNone)

\* volume.get('description', '')[:200] + '...' if volume.get('description') else ''
Description(volume) ==
    LET description == GetOrNone(volume, "description")
    IN  IF ~Truthy(description) THEN Returned(PyStr(""))
        ELSE IF description.t # "str" THEN Raised
        ELSE Returned(PyStr(Prefix(description.v, 200) \o "..."))

\* _format_google_result(volume): the outcome of the call
FormatGoogleResult(volume) ==
    IF volume.t # "dict" THEN Raised
    ELSE IF ~Truthy(GetOrNone(volume, "title")) THEN Returned(PyNone)
    ELSE LET description == Description(volume)
             isbn == ExtractIsbns(volume)
             coverUrl == ExtractCover(volume)
         IN  IF description.exc \/ isbn.exc \/ coverUrl.exc THEN Raised
             ELSE Returned(
                    [t             |-> "dict",
                     title         |-> GetOrNone(volume, "title"),
                     subtitle      |-> GetOrNone(volume, "subtitle"),
                     authors       |-> Get(volume, "authors", PyList(<<>>)),
                     publisher     |-> GetOrNone(volume, "publisher"),
                     publishedDate |-> GetOrNone(volume, "publishedDate"),
                     pageCount     |-> GetOrNone(volume, "pageCount"),
                     categories    |-> Get(volume, "categories", PyList(<<>>)),
                     description   |-> description.value,
                     isbn          |-> isbn.value,
                     coverUrl      |-> coverUrl.value])

\* item['volumeInfo']
VolumeInfo(item) ==
    IF item.t # "dict" \/ "volumeInfo" \notin DOMAIN item THEN Raised
    ELSE Returned(item.volumeInfo)

RECURSIVE FormatItems(_, _)
\* The loop "for item in data['items']" of _search_google_books_multiple
FormatItems(rest, formatted) ==
    IF rest = <<>> THEN Returned(PyList(formatted))
    ELSE LET volume == VolumeInfo(Head(rest))
         IN  IF volume.exc THEN Raised
             ELSE LET result == FormatGoogleResult(volume.value)
                  IN  IF result.exc THEN Raised
                      ELSE IF Truthy(result.value)
                      THEN FormatItems(Tail(rest), Append(formatted, WithSource(result.value, "google")))
                      ELSE FormatItems(Tail(rest), formatted)

\* The try block of _search_google_books_multiple
SearchGoogleBooksMultipleTry(reply) ==
    LET data == GetJson(reply)
    IN  IF data.exc THEN Raised
        ELSE LET has == In("items", data.value)
             IN  IF has.exc THEN Raised
                 ELSE IF ~has.value THEN Returned(PyList(<<>>))
                 ELSE IF data.value.t # "dict" THEN Raised
                 ELSE IF data.value.items.t = "str" /\ data.value.items.v = ""
                 THEN Returned(PyList(<<>>))
                 ELSE IF data.value.items.t # "list" THEN Raised
                 ELSE FormatItems(data.value.items.v, <<>>)

\* _search_google_books_multiple without its except clause
SearchGoogleBooksMultipleUnguarded(reply) == SearchGoogleBooksMultipleTry(reply)

\* _search_google_books_multiple(query): "except Exception" returns []
SearchGoogleBooksMultiple(reply) ==
    LET try == SearchGoogleBooksMultipleTry(reply)
    IN  IF try.exc THEN Returned(PyList(<<>>)) ELSE try

\* The try block of _search_google_books; "fall" is leaving it without a return
SearchGoogleBooksTry(reply) ==
    LET data == GetJson(reply)
        fall == Returned(PyNone)
    IN  IF data.exc THEN Raised
        ELSE LET has == In("items", data.value)
             IN  IF has.exc THEN Raised
                 ELSE IF ~has.value THEN fall
                 ELSE IF data.value.t # "dict" THEN Raised
                 ELSE IF ~Iterable(data.value.items) THEN Raised
                 ELSE IF Len(data.value.items.v) = 0 THEN fall
                 ELSE IF data.value.items.t # "list" THEN Raised
                 ELSE LET volume == VolumeInfo(data.value.items.v[1])
                      IN  IF volume.exc THEN Raised
                          ELSE FormatGoogleResult(volume.value)

\* _search_google_books(query): after the except clause, "return None"
SearchGoogleBooks(reply) ==
    LET try == SearchGoogleBooksTry(reply)
    IN  IF try.exc THEN Returned(PyNone) ELSE try

-----------------------------------------------------------------------------
(* create-book-notes.py: the Open Library adapter *)

\* The first element of a non-empty list of strings or of a non-empty str
First(x) == IF x.t = "list" THEN PyStr(x.v[1]) ELSE PyStr(CharAt(x.v, 1))

\* book.get(key, [None])[0] if book.get(key) else None
FirstOrNone(doc, key) ==
    LET x == GetOrNone(doc, key)
    IN  IF ~Truthy(x) THEN Returned(PyNone)
        ELSE IF ~Iterable(x) THEN Raised
        ELSE Returned(First(x))

\* book.get(key, [])[:3] if book.get(key) else []
FirstThree(doc, key) ==
    LET x == GetOrNone(doc, key)
    IN  IF ~Truthy(x) THEN Returned(PyList(<<>>))
        ELSE IF ~Iterable(x) THEN Raised
        ELSE Returned([t |-> x.t, v |-> Prefix(x.v, 3)])

\* "Get ISBNs" of _search_open_library: the value of result['isbn']
OpenLibraryIsbn(doc) ==
    LET isbns == Get(doc, "isbn", PyList(<<>>))
        Ten(i) == Len(Replace(i, "-", "")) = 10
        Thirteen(i) == Len(Replace(i, "-", "")) = 13
    IN  IF ~Truthy(isbns) THEN Returned(PyNone)
        ELSE IF ~Iterable(isbns) THEN Raised
        ELSE IF isbns.t = "str" THEN Returned(PyNone)
        ELSE LET isbn_10 == SelectSeq(isbns.v, Ten)
                 isbn_13 == SelectSeq(isbns.v, Thirteen)
             IN  Returned(IF isbn_10 # <<>> /\ isbn_13 # <<>>
                          THEN PyStr(isbn_10[1] \o ", " \o isbn_13[1])
                          ELSE IF isbn_13 # <<>> THEN PyStr(isbn_13[1])
                          ELSE IF isbn_10 # <<>> THEN PyStr(isbn_10[1])
                          ELSE PyNone)

\* The cover of an Open Library cover id
OpenLibraryCover(id) == "https://covers.openlibrary.org/b/id/" \o id \o "-L.jpg"

\* The result _search_open_library builds from data['docs'][0]
OpenLibraryResult(doc) ==
    IF doc.t # "dict" THEN Raised
    ELSE LET publisher == FirstOrNone(doc, "publisher")
             categories == FirstThree(doc, "subject")
             isbn == OpenLibraryIsbn(doc)
             cover_i == GetOrNone(doc, "cover_i")
         IN  IF publisher.exc \/ categories.exc \/ isbn.exc THEN Raised
             ELSE Returned(
                    [t             |-> "dict",
                     title         |-> GetOrNone(doc, "title"),
                     subtitle      |-> GetOrNone(doc, "subtitle"),
                     authors       |-> Get(doc, "author_name", PyList(<<>>)),
                     publisher     |-> publisher.value,
                     publishedDate |-> PyStr(Str(Get(doc, "first_publish_year", PyStr("")))),
                     pageCount     |-> GetOrNone(doc, "number_of_pages_median"),
                     categories    |-> categories.value,
                     description   |-> PyStr(""),
                     isbn          |-> isbn.value,
                     coverUrl      |-> IF Truthy(cover_i)
                                       THEN PyStr(OpenLibraryCover(Str(cover_i)))
                                       ELSE PyNone])

\* The try block of _search_open_library; "fall" is leaving it without a return
SearchOpenLibraryTry(reply) ==
    LET data == GetJson(reply)
        fall == Returned(PyNone)
    IN  IF data.exc THEN Raised
        ELSE LET has == In("docs", data.value)
             IN  IF has.exc THEN Raised
                 ELSE IF ~has.value THEN fall
                 ELSE IF data.value.t # "dict" THEN Raised
                 ELSE IF ~Iterable(data.value.docs) THEN Raised
                 ELSE IF Len(data.value.docs.v) = 0 THEN fall
                 ELSE IF data.value.docs.t # "list" THEN Raised
                 ELSE OpenLibraryResult(data.value.docs.v[1])

\* _search_open_library(title, author): after the except clause, "return None"
SearchOpenLibrary(reply) ==
    LET try == SearchOpenLibraryTry(reply)
    IN  IF try.exc THEN Returned(PyNone) ELSE try

-----------------------------------------------------------------------------
(* clean-book-notes.py: the adapters of the cleaner *)

\* A record without its description (the cleaner's results have none)
WithoutDescription(result) ==
    [k \in DOMAIN result \ {"description"} |-> result[k]]

\* The result the cleaner's _search_google_books builds from a volume
CleanerGoogleResult(volume) ==
    IF volume.t # "dict" THEN Raised
    ELSE LET isbn == ExtractIsbns(volume)
             coverUrl == ExtractCover(volume)
         IN  IF isbn.exc \/ coverUrl.exc THEN Raised
             ELSE Returned(
                    [t             |-> "dict",
                     title         |-> GetOrNone(volume, "title"),
                     subtitle      |-> GetOrNone(volume, "subtitle"),
                     authors       |-> Get(volume, "authors", PyList(<<>>)),
                     publisher     |-> GetOrNone(volume, "publisher"),
                     publishedDate |-> GetOrNone(volume, "publishedDate"),
                     pageCount     |-> GetOrNone(volume, "pageCount"),
                     categories    |-> Get(volume, "categories", PyList(<<>>)),
                     isbn          |-> isbn.value,
                     coverUrl      |-> coverUrl.value])

\* The try block of the cleaner's _search_google_books
CleanerSearchGoogleBooksTry(reply) ==
    LET data == GetJson(reply)
        fall == Returned(PyNone)
    IN  IF data.exc THEN Raised
        ELSE LET has == In("items", data.value)
             IN  IF has.exc THEN Raised
                 ELSE IF ~has.value THEN fall
                 ELSE IF data.value.t # "dict" THEN Raised
                 ELSE IF ~Iterable(data.value.items) THEN Raised
                 ELSE IF Len(data.value.items.v) = 0 THEN fall
                 ELSE IF data.value.items.t # "list" THEN Raised
                 ELSE LET volume == VolumeInfo(data.value.items.v[1])
                      IN  IF volume.exc THEN Raised
                          ELSE CleanerGoogleResult(volume.value)

\* The cleaner's _search_google_books(query)
CleanerSearchGoogleBooks(reply) ==
    LET try == CleanerSearchGoogleBooksTry(reply)
    IN  IF try.exc THEN Returned(PyNone) ELSE try

\* The cleaner's _search_open_library(title, author): the statements of the
\* creator's, without the description
CleanerSearchOpenLibrary(reply) ==
    LET try == SearchOpenLibraryTry(reply)
    IN  IF try.exc THEN Returned(PyNone)
        ELSE IF try.value.t = "dict" THEN Returned(WithoutDescription(try.value))
        ELSE try

\* The inner try of "Get authors": the names to append for one author_ref
\* that has a key
AuthorName(author_ref, author_reply) ==
    IF author_ref.t # "dict" THEN <<>>
    ELSE LET author_data == GetJsonAnyStatus(author_reply)
         IN  IF author_data.exc THEN <<>>
             ELSE LET has == In("name", author_data.value)
                  IN  IF has.exc \/ ~has.value \/ author_data.value.t # "dict" THEN <<>>
                      ELSE <<Str(author_data.value.name)>>

RECURSIVE AuthorNames(_, _, _)
\* The loop "for author_ref in book['authors']"
AuthorNames(rest, author_reply, names) ==
    IF rest = <<>> THEN Returned(PyList(names))
    ELSE LET has == In("key", Head(rest))
         IN  IF has.exc THEN Raised
             ELSE IF has.value
             THEN AuthorNames(Tail(rest), author_reply, names \o AuthorName(Head(rest), author_reply))
             ELSE AuthorNames(Tail(rest), author_reply, names)

\* "Get authors" of _fetch_open_library_isbn
EditionAuthors(doc, author_reply) ==
    IF "authors" \notin DOMAIN doc THEN Returned(PyList(<<>>))
    ELSE IF ~Iterable(doc.authors) THEN Raised
    ELSE IF doc.authors.t = "str" THEN Returned(PyList(<<>>))
    ELSE AuthorNames(doc.authors.v, author_reply, <<>>)

\* book[key][0] when key is in book and book[key] is truthy, and None otherwise
FirstIfAny(doc, key) ==
    IF key \notin DOMAIN doc \/ ~Truthy(doc[key]) THEN Returned(PyNone)
    ELSE IF ~Iterable(doc[key]) THEN Raised
    ELSE Returned(First(doc[key]))

\* The try block of _fetch_open_library_isbn
FetchOpenLibraryIsbnTry(isbn, reply, author_reply) ==
    LET data == GetJson(reply)
    IN  IF data.exc THEN Raised
        ELSE IF data.value.t # "dict" THEN Raised
        ELSE LET bk == data.value
                 categories == FirstThree(bk, "subjects")
                 authors == EditionAuthors(bk, author_reply)
                 publisher == FirstIfAny(bk, "publishers")
                 cover == FirstIfAny(bk, "covers")
             IN  IF categories.exc \/ authors.exc \/ publisher.exc \/ cover.exc THEN Raised
                 ELSE Returned(
                        [t             |-> "dict",
                         title         |-> GetOrNone(bk, "title"),
                         subtitle      |-> GetOrNone(bk, "subtitle"),
                         authors       |-> authors.value,
                         publisher     |-> publisher.value,
                         publishedDate |-> GetOrNone(bk, "publish_date"),
                         pageCount     |-> GetOrNone(bk, "number_of_pages"),
                         categories    |-> categories.value,
                         isbn          |-> PyStr(isbn),
                         coverUrl      |-> IF Truthy(cover.value)
                                           THEN PyStr(OpenLibraryCover(cover.value.v))
                                           ELSE PyNone])

\* _fetch_open_library_isbn(isbn): after the except clause, "return None"
FetchOpenLibraryIsbn(isbn, reply, author_reply) ==
    LET try == FetchOpenLibraryIsbnTry(isbn, reply, author_reply)
    IN  IF try.exc THEN Returned(PyNone) ELSE try

-----------------------------------------------------------------------------
(* The replies of the services *)

Identifier(type, identifier) ==
    [t |-> "dict", type |-> PyStr(type), identifier |-> PyStr(identifier)]

GoodVolume ==
    [t |-> "dict",
     title |-> PyStr("Dune"),
     authors |-> PyList(<<"Frank Herbert">>),
     publisher |-> PyStr("Ace"),
     publishedDate |-> PyStr("1965"),
     pageCount |-> PyInt(896),
     categories |-> PyList(<<"Fiction">>),
     description |-> PyStr("Arrakis"),
     industryIdentifiers |-> PyList(<<Identifier("ISBN_10", "0441013597"),
                                      Identifier("ISBN_13", "9780441013593")>>),
     imageLinks |-> [t |-> "dict", thumbnail |-> PyStr("http://g/c.jpg&edge=curl")]]

UntitledVolume == [t |-> "dict", publisher |-> PyStr("Ace")]

Item(volume) == [t |-> "dict", volumeInfo |-> volume]

Titled == [t |-> "dict", title |-> PyStr("Dune")]

\* An item whose description is no string: only the creator reads it
NumericDescription == Item(Titled @@ [description |-> PyInt(7)])

\* Items whose processing raises in every adapter
MalformedItems ==
    {PyNone,
     [t |-> "dict"],
     Item(PyNone),
     Item(Titled @@ [industryIdentifiers |-> PyList(<<[t |-> "dict"]>>)]),
     Item(Titled @@ [industryIdentifiers |-> PyNone]),
     Item(Titled @@ [imageLinks |-> PyNone])}

Items(q) == [t |-> "dict", items |-> PyList(q)]

\* Google Books payloads of the expected shape
GoogleBodies ==
    {[t |-> "dict", totalItems |-> PyInt(0)],
     Items(<<>>),
     Items(<<Item(GoodVolume)>>),
     Items(<<Item(UntitledVolume)>>),
     Items(<<Item(GoodVolume), Item(UntitledVolume)>>)}

\* Google Books payloads that are malformed where every adapter reads them
MalformedGoogleBodies ==
    {PyNone, PyInt(5), [t |-> "dict", items |-> PyNone]}
        \cup {Items(<<item>>) : item \in MalformedItems}

\* Google Books payloads that are malformed after their first item
LaterMalformedGoogleBodies ==
    {Items(<<Item(GoodVolume), item>>) : item \in MalformedItems \cup {NumericDescription}}

\* The replies that are a transport error, an error status or not JSON
FailedReplies(body) ==
    {TransportError, HttpReply(200, NotJson)}
        \cup {HttpReply(status, b) : status \in Statuses \ {200}, b \in {NotJson, body}}

GoodDoc ==
    [t |-> "dict",
     title |-> PyStr("Dune"),
     author_name |-> PyList(<<"Frank Herbert">>),
     publisher |-> PyList(<<"Ace", "Chilton">>),
     first_publish_year |-> PyInt(1965),
     number_of_pages_median |-> PyInt(896),
     subject |-> PyList(<<"Fiction", "Desert", "Ecology", "Politics">>),
     isbn |-> PyList(<<"0441013597", "978-0-441-01359-3">>),
     cover_i |-> PyInt(12)]

Docs(q) == [t |-> "dict", docs |-> PyList(q)]

\* Open Library search payloads of the expected shape
OpenLibraryBodies ==
    {[t |-> "dict", numFound |-> PyInt(0)],
     Docs(<<>>),
     Docs(<<GoodDoc>>),
     Docs(<<[t |-> "dict"]>>),
     Docs(<<[GoodDoc EXCEPT !.isbn = PyList(<<"9780441013593">>)]>>)}

\* Open Library search payloads whose processing raises
MalformedOpenLibraryBodies ==
    {PyNone, PyInt(5), [t |-> "dict", docs |-> PyNone],
     Docs(<<PyNone>>),
     Docs(<<[GoodDoc EXCEPT !.publisher = PyInt(3)]>>),
     Docs(<<[GoodDoc EXCEPT !.isbn = PyInt(441013597)]>>),
     Docs(<<[GoodDoc EXCEPT !.subject = PyInt(1)]>>)}

GoodEdition ==
    [t |-> "dict",
     title |-> PyStr("Dune"),
     publish_date |-> PyStr("1990"),
     number_of_pages |-> PyInt(896),
     subjects |-> PyList(<<"Fiction">>),
     authors |-> PyList(<<[t |-> "dict", key |-> PyStr("/authors/OL1A")]>>),
     publishers |-> PyList(<<"Ace">>),
     covers |-> PyList(<<"12">>)]

\* Open Library edition payloads of the expected shape
EditionBodies ==
    {GoodEdition, [t |-> "dict"], [t |-> "dict", title |-> PyStr("Dune")]}

\* Open Library edition payloads whose processing raises
MalformedEditionBodies ==
    {PyNone, PyInt(5), PyList(<<>>),
     [GoodEdition EXCEPT !.authors = PyNone],
     [GoodEdition EXCEPT !.authors = PyList(<<PyInt(1)>>)],
     [GoodEdition EXCEPT !.publishers = PyInt(1)],
     [GoodEdition EXCEPT !.covers = PyInt(1)],
     [GoodEdition EXCEPT !.subjects = PyInt(1)]}

\* The replies to the request for an author
AuthorReplies ==
    {TransportError,
     HttpReply(200, NotJson),
     HttpReply(200, PyNone),
     HttpReply(200, [t |-> "dict", name |-> PyStr("Frank Herbert")]),
     HttpReply(404, [t |-> "dict", error |-> PyStr("notfound")])}

\* The replies to a request: the failing ones (failure, or a payload of
\* malformed) and the ones with a payload of bodies
Replies(failure, bodies, malformed) ==
    IF failure
    THEN FailedReplies(CHOOSE b \in bodies : TRUE) \cup {HttpReply(200, b) : b \in malformed}
    ELSE {HttpReply(200, b) : b \in bodies}

-----------------------------------------------------------------------------
(* The adapters as actions *)

InitAdapter ==
    /\ Uncalled
    /\ entered = [title |-> "Dune", author |-> "Herbert"]
    /\ olRecord = PyNone
    /\ searched = NotSearched
    /\ disk = EmptyDict
    /\ bookFiles = EmptyDict
    /\ creates = 0
    /\ downloads = EmptyDict
    /\ created = NotCreated
    /\ vault = <<>>
    /\ catalog = FullRecord
    /\ cleanPc = "done"
    /\ idx = 1
    /\ runs = 1
    /\ book = FromFile(BlankNote)
    /\ api_data = PyNone
    /\ updates = EmptyDict
    /\ trace = NoTrace
    /\ applied = <<>>

\* The record of a call
Called(adapter, args, failure, reply, author_reply, outcome) ==
    [called |-> TRUE, adapter |-> adapter, args |-> args, failure |-> failure,
     reply |-> reply, author_reply |-> author_reply,
     raised |-> outcome.exc, value |-> outcome.value]

Queries == {"Dune Herbert", "Dune"}

CallSearchGoogleBooksMultiple ==
    /\ \E query \in Queries, failure \in BOOLEAN :
          \E reply \in Replies(failure, GoogleBodies,
                               MalformedGoogleBodies \cup LaterMalformedGoogleBodies
                                   \cup {Items(<<NumericDescription>>)}) :
             adapterCall' = Called("_search_google_books_multiple", <<query>>, failure,
                                   reply, PyNone, SearchGoogleBooksMultiple(reply))
    /\ AdapterOnly

CallSearchGoogleBooks ==
    /\ \E query \in Queries, failure \in BOOLEAN :
          \E reply \in Replies(failure, GoogleBodies \cup LaterMalformedGoogleBodies,
                               MalformedGoogleBodies \cup {Items(<<NumericDescription>>)}) :
             adapterCall' = Called("_search_google_books", <<query>>, failure,
                                   reply, PyNone, SearchGoogleBooks(reply))
    /\ AdapterOnly

CallSearchOpenLibrary ==
    /\ \E author \in {"", "Herbert"}, failure \in BOOLEAN :
          \E reply \in Replies(failure, OpenLibraryBodies, MalformedOpenLibraryBodies) :
             adapterCall' = Called("_search_open_library", <<"Dune", author>>, failure,
                                   reply, PyNone, SearchOpenLibrary(reply))
    /\ AdapterOnly

CallCleanerSearchGoogleBooks ==
    /\ \E query \in Queries, failure \in BOOLEAN :
          \E reply \in Replies(failure, GoogleBodies \cup LaterMalformedGoogleBodies
                                            \cup {Items(<<NumericDescription>>)},
                               MalformedGoogleBodies) :
             adapterCall' = Called("cleaner._search_google_books", <<query>>, failure,
                                   reply, PyNone, CleanerSearchGoogleBooks(reply))
    /\ AdapterOnly

CallCleanerSearchOpenLibrary ==
    /\ \E author \in {"", "Herbert"}, failure \in BOOLEAN :
          \E reply \in Replies(failure, OpenLibraryBodies, MalformedOpenLibraryBodies) :
             adapterCall' = Called("cleaner._search_open_library", <<"Dune", author>>,
                                   failure, reply, PyNone, CleanerSearchOpenLibrary(reply))
    /\ AdapterOnly

CallFetchOpenLibraryIsbn ==
    /\ \E failure \in BOOLEAN, author_reply \in AuthorReplies :
          \E reply \in Replies(failure, EditionBodies, MalformedEditionBodies) :
             adapterCall' = Called("_fetch_open_library_isbn", <<"9780441013593">>, failure,
                                   reply, author_reply,
                                   FetchOpenLibraryIsbn("9780441013593", reply, author_reply))
    /\ AdapterOnly

NextAdapter ==
    \/ CallSearchGoogleBooksMultiple
    \/ CallSearchGoogleBooks
    \/ CallSearchOpenLibrary
    \/ CallCleanerSearchGoogleBooks
    \/ CallCleanerSearchOpenLibrary
    \/ CallFetchOpenLibraryIsbn

SpecAdapter == InitAdapter /\ [][NextAdapter]_vars

-----------------------------------------------------------------------------
(* The adapters contain their failures: claim C7 *)

\* None or an empty list
EmptyResult(v) == v.t = "none" \/ (v.t = "list" /\ v.v = <<>>)

\* C7: adapter failure firewall.  No call of a source adapter raises, and a
\* call answered by a transport error, an error status, a body that is not
\* JSON or a malformed payload returns None or an empty list.
C7_AdapterFirewall ==
    adapterCall.called =>
        /\ ~adapterCall.raised
        /\ adapterCall.failure => EmptyResult(adapterCall.value)

\* C7 witness: _search_google_books_multiple got a 200 reply whose JSON payload
\* is malformed, and returned the empty list without raising
C7_MalformedPayloadContained ==
    /\ adapterCall.called
    /\ adapterCall.adapter = "_search_google_books_multiple"
    /\ adapterCall.failure
    /\ adapterCall.reply.status = 200
    /\ adapterCall.reply.body.t = "dict"
    /\ ~adapterCall.raised
    /\ adapterCall.value = PyList(<<>>)

-----------------------------------------------------------------------------
(* What the deduplication keeps: claims C11 and C12 *)

\* The key of a candidate: its ISBN without separators when it has one, and
\* otherwise its trimmed lowercase title, "_", and its first author or ""
CandidateKey(r) ==
    LET isbn == IF r.isbn.t = "str" THEN BareIsbn(r.isbn.v) ELSE ""
        title == IF r.title.t = "str" THEN Strip(Lower(r.title.v)) ELSE ""
        author == IF Truthy(r.authors) THEN Strip(Lower(r.authors.v[1])) ELSE ""
    IN  IF isbn # "" THEN isbn ELSE title \o "_" \o author

\* A candidate with neither an ISBN nor a title
Keyless(r) == ~HasIsbn(r) /\ ~Truthy(r.title)

RECURSIVE FirstSeen(_, _)
\* The candidates of rest that are first with their key, in list order
FirstSeen(rest, seen) ==
    IF rest = <<>> THEN <<>>
    ELSE IF Keyless(Head(rest)) \/ CandidateKey(Head(rest)) \in seen
    THEN FirstSeen(Tail(rest), seen)
    ELSE <<Head(rest)>> \o FirstSeen(Tail(rest), seen \cup {CandidateKey(Head(rest))})

\* C11: first-seen-wins dedup.  For every raw candidate list the deduplicated
\* list holds, for each distinct key, exactly the first candidate with that
\* key, unchanged and in list order; every later candidate with the key is
\* dropped.
C11_FirstSeenWins ==
    searched.called =>
        /\ ~searched.raised
        /\ searched.unique_results = FirstSeen(searched.all_results, {})

\* C12: records with an empty key are dropped.  A search whose raw list holds
\* a candidate with neither an ISBN nor a title returns a list, and that
\* candidate is not in it.
C12_KeylessDropped ==
    (searched.called /\ \E i \in 1..Len(searched.all_results) :
                            Keyless(searched.all_results[i])) =>
        /\ ~searched.raised
        /\ \A k \in 1..Len(searched.returned) : ~Keyless(searched.returned[k])

-----------------------------------------------------------------------------
(* create-book-notes.py: relevance_score, the sort and the truncation of
   search_books_by_title_author, applied to deduplicated lists *)

\* The longest deduplicated list ranked
MaxRanked == 6

Candidate(title, authors, publishedDate, isbn) ==
    [FullRecord EXCEPT !.title = PyStr(title), !.authors = PyList(authors),
                       !.publishedDate = PyStr(publishedDate), !.isbn = PyStr(isbn)]

\* Candidates with distinct keys: exact and partial title matches, years
\* before and after 1900, equal scores
Candidates ==
    {Candidate("Dune", <<"Frank Herbert">>, "1850", "1111111111"),
     Candidate("Dune Messiah", <<"Frank Herbert">>, "2020", "2222222222"),
     Candidate("Dune", <<"F. H.">>, "1965", "3333333333"),
     Candidate("DUNE", <<"Frank Herbert">>, "1990-06-01", "4444444444"),
     Candidate("Arrakis", <<"Kevin Anderson", "Brian Herbert">>, "", "5555555555"),
     Candidate("Dune Messiah", <<"Frank Herbert">>, "June 1, 1969", "6666666666")}

RECURSIVE Arrangements(_, _)
\* The sequences without repetition over set, of length n at most
Arrangements(set, n) ==
    IF n = 0 \/ set = {} THEN {<<>>}
    ELSE {<<>>} \cup UNION {{<<x>> \o q : q \in Arrangements(set \ {x}, n - 1)} : x \in set}

\* The title and author entered
RankQueries ==
    {[title |-> "Dune", author |-> ""],
     [title |-> "Dune", author |-> "herbert"],
     [title |-> "dune messiah", author |-> ""]}

InitRank ==
    /\ Uncalled
    /\ entered = [title |-> "Dune", author |-> "Herbert"]
    /\ olRecord = PyNone
    /\ searched = NotSearched
    /\ disk = EmptyDict
    /\ bookFiles = EmptyDict
    /\ creates = 0
    /\ downloads = EmptyDict
    /\ created = NotCreated
    /\ vault = <<>>
    /\ catalog = FullRecord
    /\ cleanPc = "done"
    /\ idx = 1
    /\ runs = 1
    /\ book = FromFile(BlankNote)
    /\ api_data = PyNone
    /\ updates = EmptyDict
    /\ trace = NoTrace
    /\ applied = <<>>

\* Lines 102-132 of the one search of a run: relevance_score of each
\* deduplicated candidate, the sort, the truncation
Rank ==
    /\ ~ranking.called
    /\ \E q \in RankQueries, unique_results \in Arrangements(Candidates, MaxRanked) :
          \E sorted \in {SortByRelevance(unique_results, q.title, q.author)} :
             ranking' = [called |-> TRUE, title |-> q.title, author |-> q.author,
                         unique_results |-> unique_results,
                         scores |-> ScoreEach(unique_results, q.title, q.author),
                         returned |-> Prefix(sorted, TopN)]
    /\ UNCHANGED <<isbnCall, resolution, race>>
    /\ PureOnly

NextRank == Rank

SpecRank == InitRank /\ [][NextRank]_vars

-----------------------------------------------------------------------------
(* Ranking: claims C13, C14 and C15 *)

\* The place of a candidate in a list of distinct candidates, 0 when absent
PlaceIn(q, r) == IF \E k \in 1..Len(q) : q[k] = r
                 THEN CHOOSE k \in 1..Len(q) : q[k] = r ELSE 0

ExactTitle(r) == Lower(r.title.v) = Lower(ranking.title)

PartialTitle(r) ==
    /\ ~ExactTitle(r)
    /\ \/ Contains(Lower(r.title.v), Lower(ranking.title))
       \/ Contains(Lower(ranking.title), Lower(r.title.v))

YearOf(r) == ParseInt(FirstYear(r.publishedDate.v))

\* C13: ranking precedence.  A candidate whose title equals the query's
\* (case-insensitively) and whose year is old has a strictly higher score than
\* a candidate whose title only partially matches and whose year is recent,
\* and is ranked before it, for every 4-digit year.
C13_ExactBeforePartial ==
    ranking.called =>
        \A i, j \in 1..Len(ranking.unique_results) :
            LET old == ranking.unique_results[i]
                recent == ranking.unique_results[j]
            IN  (/\ ExactTitle(old) /\ FirstYear(old.publishedDate.v) # ""
                 /\ PartialTitle(recent) /\ FirstYear(recent.publishedDate.v) # ""
                 /\ YearOf(old) < YearOf(recent)) =>
                    /\ ranking.scores[i] > ranking.scores[j]
                    /\ PlaceIn(ranking.returned, recent) # 0 =>
                          /\ PlaceIn(ranking.returned, old) # 0
                          /\ PlaceIn(ranking.returned, old) < PlaceIn(ranking.returned, recent)

\* The score as the specification states it
StatedScore(r, title, author) ==
    LET a == Lower(r.title.v)
        b == Lower(title)
        titlePoints == IF a = b THEN 100
                       ELSE IF Contains(a, b) \/ Contains(b, a) THEN 50 ELSE 0
        matches(name) == Contains(Lower(name), Lower(author)) \/ Contains(Lower(author), Lower(name))
        authorPoints == IF author # "" /\ \E k \in 1..Len(r.authors.v) : matches(r.authors.v[k])
                        THEN 30 ELSE 0
        years == YearStarts(r.publishedDate.v)
        first == CHOOSE y \in years : \A z \in years : y <= z
        year == ParseInt(SubSeq(r.publishedDate.v, first, first + 3))
        yearPoints == IF years = {} THEN 0
                      ELSE IF year - 1900 < 25 THEN year - 1900 ELSE 25
    IN  titlePoints + authorPoints + yearPoints

\* C14: relevance score function.  The score of every candidate is 100 for
\* equal lowercased titles, else 50 when one contains the other, else 0; plus
\* 30 when the query author is non-empty and contains or is contained by some
\* candidate author case-insensitively; plus min(year - 1900, 25) for the first
\* 4-digit run of publishedDate, or 0 without one.
C14_ScoreFunction ==
    ranking.called =>
        \A i \in 1..Len(ranking.unique_results) :
            ranking.scores[i] =
                StatedScore(ranking.unique_results[i], ranking.title, ranking.author)

\* C14 witness: with an author entered, one candidate scored 100 + 30 + 25 and
\* another got the points of a year before 1900
C14_AllPartsScored ==
    /\ ranking.called
    /\ ranking.author # ""
    /\ \E i, j \in 1..Len(ranking.unique_results) :
          /\ ranking.scores[i] = 155
          /\ YearOf(ranking.unique_results[j]) < 1900
          /\ ranking.scores[j] = 80

\* C15: stable ranking and top 5.  The returned list holds min(5, n)
\* candidates of the deduplicated list, in descending score, equal scores in
\* the order of the deduplicated list, and no candidate left out would sort
\* before one returned.
C15_StableTopFive ==
    ranking.called =>
        LET uniq == ranking.unique_results
            ret == ranking.returned
            n == Len(uniq)
            at(k) == PlaceIn(uniq, ret[k])
            Before(i, j) == \/ ranking.scores[i] > ranking.scores[j]
                            \/ ranking.scores[i] = ranking.scores[j] /\ i < j
        IN  /\ Len(ret) = IF n < 5 THEN n ELSE 5
            /\ \A k \in 1..Len(ret) : at(k) # 0
            /\ \A k, l \in 1..Len(ret) : k < l => Before(at(k), at(l))
            /\ \A i \in 1..n : PlaceIn(ret, uniq[i]) = 0 =>
                  \A k \in 1..Len(ret) : Before(at(k), i)

\* C15 witness: more than five candidates were ranked and two of the returned
\* ones have the same score
C15_TruncatedWithTie ==
    /\ ranking.called
    /\ Len(ranking.unique_results) > 5
    /\ Len(ranking.returned) = 5
    /\ \E k \in 1..4 :
          ranking.scores[PlaceIn(ranking.unique_results, ranking.returned[k])]
              = ranking.scores[PlaceIn(ranking.unique_results, ranking.returned[k + 1])]

-----------------------------------------------------------------------------
(* The ISBN of an adapter's record: claims C16 and C17 *)

\* The records an adapter returned: the one dict, or the dicts of the list
ReturnedRecords(v) ==
    IF v.t = "dict" THEN <<v>>
    ELSE IF v.t = "list" THEN v.v
    ELSE <<>>

\* The variants of an isbn field: its comma-separated parts without the
\* blanks around them
Variants(isbn) ==
    LET parts == Split(isbn, ",")
    IN  [i \in 1..Len(parts) |-> Strip(parts[i])]

\* Uppercase digits and the character X only
NormalForm(s) == KeepChars(s, Digits \cup {"X"}) = s

\* C16: ISBN normal-form invariant.  The isbn of every record an adapter
\* returns is made of digits and X only, without hyphens or spaces, in each of
\* its variants.
C16_IsbnNormalForm ==
    adapterCall.called =>
        \A i \in 1..Len(ReturnedRecords(adapterCall.value)) :
            LET r == ReturnedRecords(adapterCall.value)[i]
            IN  r.isbn.t = "str" =>
                    \A k \in 1..Len(Variants(r.isbn.v)) : NormalForm(Variants(r.isbn.v)[k])

\* The replies whose first entry supplies both an ISBN-10 and an ISBN-13
SuppliesBoth(reply) ==
    /\ reply.status = 200
    /\ reply.body \in {Items(<<Item(GoodVolume)>>), Docs(<<GoodDoc>>)}

\* The replies whose first entry supplies an ISBN-13 alone
SuppliesIsbn13(reply) ==
    /\ reply.status = 200
    /\ reply.body = Docs(<<[GoodDoc EXCEPT !.isbn = PyList(<<"9780441013593">>)]>>)

\* C17: both ISBN variants.  When the source supplies an ISBN-13 and an
\* ISBN-10 the record carries both, comma-joined, the ISBN-13 first; when it
\* supplies one the record carries that one.
C17_Isbn13First ==
    (adapterCall.called /\ adapterCall.adapter # "_fetch_open_library_isbn") =>
        \A i \in 1..Len(ReturnedRecords(adapterCall.value)) :
            LET r == ReturnedRecords(adapterCall.value)[i]
                variants == Variants(r.isbn.v)
            IN  /\ (i = 1 /\ SuppliesBoth(adapterCall.reply)) =>
                       /\ r.isbn.t = "str"
                       /\ Len(variants) = 2
                /\ (i = 1 /\ SuppliesIsbn13(adapterCall.reply)) =>
                       r.isbn = PyStr("9780441013593")
                /\ (r.isbn.t = "str" /\ Len(variants) = 2) =>
                       /\ Len(BareIsbn(variants[1])) = 13
                       /\ Len(BareIsbn(variants[2])) = 10

\* What C17 leaves when the order of the two variants is not asked for: the
\* record carries both variants of a source that supplies both, and the one
\* of a source that supplies one
BothVariantsKept ==
    (adapterCall.called /\ adapterCall.adapter # "_fetch_open_library_isbn") =>
        \A i \in 1..Len(ReturnedRecords(adapterCall.value)) :
            LET r == ReturnedRecords(adapterCall.value)[i]
                variants == Variants(r.isbn.v)
            IN  /\ (i = 1 /\ SuppliesBoth(adapterCall.reply)) =>
                       /\ r.isbn.t = "str"
                       /\ Len(variants) = 2
                       /\ {Len(BareIsbn(variants[1])), Len(BareIsbn(variants[2]))} = {10, 13}
                /\ (i = 1 /\ SuppliesIsbn13(adapterCall.reply)) =>
                       r.isbn = PyStr("9780441013593")

-----------------------------------------------------------------------------
(* clean-book-notes.py: search_by_isbn on the isbn of a note *)

\* The longest isbn looked up
MaxIsbnLen == 4

\* Characters of an isbn as notes hold them: digits, the check character in
\* both cases, a hyphen, a letter that is not part of an ISBN
IsbnAlphabet == {"0", "9", "x", "X", "-", "a"}

RECURSIVE StringsOver(_, _)
\* The strings over an alphabet, of length n at most
StringsOver(alphabet, n) ==
    IF n = 0 THEN {""}
    ELSE {""} \cup {c \o s : c \in alphabet, s \in StringsOver(alphabet, n - 1)}

\* run calls search_by_isbn when book.isbn is truthy
IsbnInputs == StringsOver(IsbnAlphabet, MaxIsbnLen) \ {""}

InitIsbn ==
    /\ Uncalled
    /\ entered = [title |-> "Dune", author |-> "Herbert"]
    /\ olRecord = PyNone
    /\ searched = NotSearched
    /\ disk = EmptyDict
    /\ bookFiles = EmptyDict
    /\ creates = 0
    /\ downloads = EmptyDict
    /\ created = NotCreated
    /\ vault = <<>>
    /\ catalog = FullRecord
    /\ cleanPc = "done"
    /\ idx = 1
    /\ runs = 1
    /\ book = FromFile(BlankNote)
    /\ api_data = PyNone
    /\ updates = EmptyDict
    /\ trace = NoTrace
    /\ applied = <<>>

\* One call of search_by_isbn: the cleaning step, the Google Books request and,
\* when it gave nothing, the Open Library request
CallSearchByIsbn ==
    /\ ~isbnCall.called
    /\ \E isbn \in IsbnInputs, ans \in {a \in Answers : ~a.gTitle /\ ~a.olTitle} :
          \E outcome \in {SearchByIsbn(isbn, catalog, ans)} :
             isbnCall' = [called |-> TRUE, isbn |-> isbn,
                          calls |-> outcome.calls, data |-> outcome.data]
    /\ UNCHANGED <<ranking, resolution, race>>
    /\ PureOnly

NextIsbn == CallSearchByIsbn

SpecIsbn == InitIsbn /\ [][NextIsbn]_vars

-----------------------------------------------------------------------------
(* The ISBN query: claims C18 and C19 *)

\* The isbn in the Google Books request of the call, after "isbn:"
DispatchedIsbn == SubSeq(isbnCall.calls[1].q, 6, Len(isbnCall.calls[1].q))

\* C18: the ISBN cleaning step of search_by_isbn is idempotent.  Cleaning the
\* value it produced gives that value again.
C18_CleanIsbnIdempotent ==
    isbnCall.called =>
        /\ DispatchedIsbn = CleanIsbn(isbnCall.isbn)
        /\ CleanIsbn(DispatchedIsbn) = DispatchedIsbn

\* C18 witness: the cleaning step removed two characters of the isbn and kept
\* others, and cleaning what it kept changes nothing
C18_CleanedTwice ==
    /\ isbnCall.called
    /\ DispatchedIsbn # ""
    /\ Len(DispatchedIsbn) + 2 <= Len(isbnCall.isbn)
    /\ CleanIsbn(DispatchedIsbn) = DispatchedIsbn

\* C19: the value search_by_isbn dispatches, to Google Books and to Open
\* Library, is the input with every character outside [0-9X] stripped first
\* and what remains uppercased then.
C19_StripThenUppercase ==
    isbnCall.called =>
        LET stated == Upper(KeepChars(isbnCall.isbn, Digits \cup {"X"}))
        IN  \A i \in 1..Len(isbnCall.calls) :
                isbnCall.calls[i].q =
                    (IF isbnCall.calls[i].src = "google" THEN "isbn:" ELSE "") \o stated

\* What C19 leaves on the isbns without a lower case letter: stripping and
\* uppercasing give the same value in either order
SameWithoutLowerCase ==
    (isbnCall.called /\ Upper(isbnCall.isbn) = isbnCall.isbn) => C19_StripThenUppercase

-----------------------------------------------------------------------------
(* A run of either script on a vault: the cleaner on a vault with a note,
   the creator on a vault without one *)

\* main() of clean-book-notes.py is what runs
CleanerRuns == vault # <<>>

InitEither == InitClean \/ InitCreate

NextEither ==
    \/ CleanerRuns /\ NextClean
    \/ ~CleanerRuns /\ NextCreate

SpecEither == InitEither /\ [][NextEither]_vars

-----------------------------------------------------------------------------
(* A failed cover download: claim C20 *)

\* C20: acquisition failure marks nothing.  When download_cover returns False
\* the cleaner's updates have no localCover and the note the creator writes
\* has an empty local cover path; and a local cover path is recorded, in the
\* updates or in a new note, only if a file exists at that path.
C20_FailureMarksNothing ==
    /\ (trace.built /\ trace.cover.fetched /\ ~trace.cover.ok) =>
           "localCover" \notin DOMAIN updates
    /\ (trace.built /\ "localCover" \in DOMAIN updates) =>
           /\ updates["localCover"] = PyStr(trace.cover.path)
           /\ Exists(disk, trace.cover.path)
    /\ (created.called /\ created.fetched /\ ~created.downloaded) =>
           /\ created.localCover = ""
           /\ created.ret => bookFiles[created.filename].localCoverImage = ""
    /\ (created.called /\ created.localCover # "") => Exists(disk, created.localCover)
    /\ (created.called /\ created.ret) =>
           /\ bookFiles[created.filename].localCoverImage = created.localCover
           /\ created.localCover \in {"", created.coverPath}

\* C20 witness: the cleaner's download_cover call returned False, the updates
\* were built with other fields and without localCover
C20_DownloadFailedInCleaner ==
    /\ trace.built
    /\ trace.cover.fetched
    /\ ~trace.cover.ok
    /\ updates # EmptyDict
    /\ "localCover" \notin DOMAIN updates

\* The creator's side of C20 happens too: download_cover returned False and
\* the note was written with an empty local cover path
DownloadFailedInCreator ==
    /\ created.called
    /\ created.fetched
    /\ ~created.downloaded
    /\ created.ret
    /\ bookFiles[created.filename].localCoverImage = ""

-----------------------------------------------------------------------------
(* An identifier that cannot be looked up: claim C21 *)

\* C21: identifier validation skips the call.  When the isbn has no digit
\* left after the cleaning step, search_by_isbn sends no request to any
\* source.
C21_NoDigitsNoRequest ==
    (isbnCall.called /\ KeepChars(CleanIsbn(isbnCall.isbn), Digits) = "") =>
        isbnCall.calls = <<>>

-----------------------------------------------------------------------------
(* The name of a cover file: claim C22 *)

\* The stated name: the author segment when there is an author, the title,
\* the date segment when there is a date
StatedCoverName(author, title, date) ==
    (IF author # "" THEN author \o " - " ELSE "")
        \o title
        \o (IF date # "" THEN " - " \o date ELSE "")
        \o ".jpg"

\* The author the cleaner has for the name: the candidate's first author,
\* else the note's
CleanerAuthor ==
    IF Truthy(api_data.authors) THEN Sanitize(api_data.authors.v[1])
    ELSE IF Truthy(book.author) THEN Sanitize(StripLinkBrackets(book.author.v[1]))
    ELSE ""

\* The title the cleaner has for the name: the note's, else the candidate's
CleanerTitle == IF Truthy(book.title) THEN book.title.v ELSE api_data.title.v

\* C22: the cover file name omits segments independently.  The name has the
\* author segment iff an author is available and the date segment iff a date
\* is available, in all four combinations: a date without an author gives
\* "{title} - {date}.jpg".
C22_SegmentsIndependent ==
    /\ (trace.built /\ Truthy(api_data.coverUrl)) =>
           trace.cover.path =
               RelativeCoverPath(
                   StatedCoverName(CleanerAuthor, Sanitize(CleanerTitle),
                                   IF Truthy(api_data.publishedDate)
                                   THEN api_data.publishedDate.v ELSE ""))
    /\ (created.called /\ created.coverPath # "") =>
           created.coverPath =
               RelativeCoverPath(
                   StatedCoverName(Sanitize(created.book.authors.v[1]),
                                   Sanitize(created.book.title.v),
                                   IF Truthy(created.book.publishedDate)
                                   THEN FirstYear(created.book.publishedDate.v) ELSE ""))

\* What C22 leaves for the candidates with an author, or without a date: the
\* name is the stated one
NamedAsStatedWithAuthor ==
    (~trace.built \/ CleanerAuthor # "" \/ ~Truthy(api_data.publishedDate)) =>
        C22_SegmentsIndependent

-----------------------------------------------------------------------------
(* create-book-notes.py: the loop of search_books_by_title_author, one
   adapter call at a time.  A call starts, lasts while the request is out,
   and ends by returning or, were the adapter to raise, in the except clause
   around it. *)

Pending(adapter, args) ==
    [adapter |-> adapter, args |-> args, state |-> "pending", raised |-> FALSE,
     value |-> PyNone]

\* The calls of "for search_term in search_terms", in program order: per term
\* _search_google_books_multiple(search_term), then
\* _search_open_library(title, author)
LoopCalls(title, author) ==
    LET terms == SearchTerms(title, author)
        one(i) == <<Pending("_search_google_books_multiple", <<terms[i]>>),
                    Pending("_search_open_library", <<title, author>>)>>
    IN  one(1) \o one(2) \o one(3)

\* What a call comes back with: the adapter's value, or an exception
CallOutcomes(adapter) ==
    IF adapter = "_search_google_books_multiple"
    THEN {Returned(PyList(<<>>)), Returned(PyList(<<WithSource(DunePlain, "google")>>)), Raised}
    ELSE {Returned(PyNone), Returned(DuneHyphenated), Raised}

\* all_results.extend(google_results), or all_results.append(ol_result) with
\* its source when ol_result is truthy; nothing in the except clause
Extended(all_results, adapter, outcome) ==
    IF outcome.exc THEN all_results
    ELSE IF adapter = "_search_google_books_multiple" THEN all_results \o outcome.value.v
    ELSE IF Truthy(outcome.value)
         THEN Append(all_results, WithSource(outcome.value, "openlibrary"))
         ELSE all_results

\* The positions of the calls in a state
CallsIn(state) ==
    {k \in 1..Len(resolution.tasks) : resolution.tasks[k].state = state}

InitResolve ==
    /\ Uncalled
    /\ entered \in {[title |-> "Dune", author |-> "Herbert"],
                    [title |-> "Dune", author |-> ""]}
    /\ olRecord = PyNone
    /\ searched = NotSearched
    /\ disk = EmptyDict
    /\ bookFiles = EmptyDict
    /\ creates = 0
    /\ downloads = EmptyDict
    /\ created = NotCreated
    /\ vault = <<>>
    /\ catalog = FullRecord
    /\ cleanPc = "done"
    /\ idx = 1
    /\ runs = 1
    /\ book = FromFile(BlankNote)
    /\ api_data = PyNone
    /\ updates = EmptyDict
    /\ trace = NoTrace
    /\ applied = <<>>

\* all_results = [] and search_terms
BeginResolution ==
    /\ resolution.pc = "idle"
    /\ resolution' = [pc |-> "looping",
                      tasks |-> LoopCalls(entered.title, entered.author),
                      all_results |-> <<>>]
    /\ UNCHANGED <<ranking, isbnCall, race>>
    /\ PureOnly

\* The loop reaches its next call: the statement runs when the one before it
\* has ended
StartCall ==
    /\ resolution.pc = "looping"
    /\ CallsIn("running") = {}
    /\ CallsIn("pending") # {}
    /\ LET k == CHOOSE c \in CallsIn("pending") : \A d \in CallsIn("pending") : c <= d
       IN  resolution' = [resolution EXCEPT !.tasks[k].state = "running"]
    /\ UNCHANGED <<ranking, isbnCall, race>>
    /\ PureOnly

\* The call that is out ends, and the loop adds what it gave to all_results
EndCall ==
    /\ resolution.pc = "looping"
    /\ \E k \in CallsIn("running") :
          \E outcome \in CallOutcomes(resolution.tasks[k].adapter) :
             resolution' =
                 [resolution EXCEPT
                     !.tasks[k] = [@ EXCEPT !.state = "done", !.raised = outcome.exc,
                                            !.value = outcome.value],
                     !.all_results = Extended(@, resolution.tasks[k].adapter, outcome)]
    /\ UNCHANGED <<ranking, isbnCall, race>>
    /\ PureOnly

\* A loop that stops at the first call that gave nothing or raised
LoopEndsOnFailure ==
    /\ resolution.pc = "looping"
    /\ CallsIn("running") = {}
    /\ \/ CallsIn("pending") = {}
       \/ \E k \in CallsIn("done") :
             resolution.tasks[k].raised \/ ~Truthy(resolution.tasks[k].value)
    /\ resolution' = [resolution EXCEPT !.pc = "collected"]
    /\ UNCHANGED <<ranking, isbnCall, race>>
    /\ PureOnly

\* The loop is over: all_results is complete (line 85)
LoopEnds ==
    /\ resolution.pc = "looping"
    /\ CallsIn("running") = {}
    /\ CallsIn("pending") = {}
    /\ resolution' = [resolution EXCEPT !.pc = "collected"]
    /\ UNCHANGED <<ranking, isbnCall, race>>
    /\ PureOnly

NextResolve == BeginResolution \/ StartCall \/ EndCall \/ LoopEnds

SpecResolve == InitResolve /\ [][NextResolve]_vars

-----------------------------------------------------------------------------
(* The calls of one resolution: claims C23 and C24 *)

\* C23: concurrent fan-out of every (adapter, variant) pair.  The calls of a
\* resolution run concurrently: while the loop has a call left to start, it
\* can start it, whether or not an earlier call is still out.
C23_StartsWithoutWaiting ==
    (resolution.pc = "looping" /\ CallsIn("pending") # {}) => ENABLED StartCall

\* What the calls leave when they are never out together: at most one call of
\* a resolution is running, and every call before it has ended
OneCallAtATime ==
    \A k \in CallsIn("running") :
        \A j \in 1..Len(resolution.tasks) :
            /\ j < k => resolution.tasks[j].state = "done"
            /\ j > k => resolution.tasks[j].state = "pending"

RECURSIVE Included(_)
\* What the ended calls gave, in the order of the calls
Included(tasks) ==
    IF tasks = <<>> THEN <<>>
    ELSE LET last == tasks[Len(tasks)]
             before == Included(SubSeq(tasks, 1, Len(tasks) - 1))
         IN  IF last.state = "done"
             THEN Extended(before, last.adapter, [exc |-> last.raised, value |-> last.value])
             ELSE before

\* A call that raised or gave nothing
Failed(task) ==
    /\ task.state = "done"
    /\ task.raised \/ ~Truthy(task.value)

\* C24: no cross-task cancellation.  When a call of a resolution fails or
\* raises, the loop still starts every other call and lets it end, and
\* all_results holds what each of them gave.
C24_NoCancellation ==
    /\ resolution.all_results = Included(resolution.tasks)
    /\ resolution.pc = "collected" =>
           /\ Len(resolution.tasks) = 6
           /\ CallsIn("done") = 1..6
    /\ (/\ resolution.pc = "looping"
        /\ CallsIn("running") = {}
        /\ CallsIn("pending") # {}
        /\ \E k \in CallsIn("done") : Failed(resolution.tasks[k])) => ENABLED StartCall

\* C24 witness: the first call raised and the third gave nothing, the loop ran
\* all six calls, and all_results holds the records of the second and the
\* fifth
C24_SiblingsOfFailedCalls ==
    /\ resolution.pc = "collected"
    /\ resolution.tasks[1].raised
    /\ Failed(resolution.tasks[3])
    /\ ~Failed(resolution.tasks[2])
    /\ ~Failed(resolution.tasks[5])
    /\ resolution.tasks[5].adapter = "_search_google_books_multiple"
    /\ resolution.all_results[1] = WithSource(DuneHyphenated, "openlibrary")
    /\ \E i \in 2..Len(resolution.all_results) :
          resolution.all_results[i] = WithSource(DunePlain, "google")

-----------------------------------------------------------------------------
(* clean-book-notes.py: "Handle local cover" in two runs of the script that
   fix notes of the same book at the same time.  Both runs name the same
   cover file.  The step is not atomic: the existence test, the GET of
   download_cover and its open and write are separate moments. *)

\* How many runs are at the step at once
MaxOps == 2

\* The runs
Ops == 1..MaxOps

\* The cover file both runs name
TargetPath == NewCoverPath

\* A run before its cover step
AtCheck ==
    [pc |-> "check", sawAbsent |-> FALSE, fetched |-> FALSE, wrote |-> FALSE,
     set |-> FALSE]

\* A test that never finds the file
CoverNeverFound(dsk, path) == TRUE

\* not local_cover_path.exists()
CoverAbsent(dsk, path) == ~Exists(dsk, path)

\* Runs that are serialized on a target path enter the step one at a time
MayEnter(i) ==
    race.serialized => \A j \in Ops \ {i} : race.ops[j].pc \in {"check", "done"}

\* What the race leaves alone
RaceOnly ==
    UNCHANGED <<cleanVars, createVars, searchVars, fanVars, adapterVars,
                ranking, isbnCall, resolution>>

InitRace ==
    /\ race \in {[serialized |-> s, ops |-> [i \in Ops |-> AtCheck]] : s \in BOOLEAN}
    /\ disk \in {EmptyDict, [p \in {OldCoverPath} |-> "image"]}
               \cup {[p \in {TargetPath} |-> content] : content \in {"image", "partial"}}
    /\ futures = NoFutures
    /\ clock = 0
    /\ collected = <<>>
    /\ fanPc = "idle"
    /\ adapterCall = NoCall
    /\ ranking = NotRanked
    /\ isbnCall = NoIsbnCall
    /\ resolution = NotResolving
    /\ entered = [title |-> "Dune", author |-> "Herbert"]
    /\ olRecord = PyNone
    /\ searched = NotSearched
    /\ bookFiles = EmptyDict
    /\ creates = 0
    /\ downloads = EmptyDict
    /\ created = NotCreated
    /\ vault = <<>>
    /\ catalog = FullRecord
    /\ cleanPc = "done"
    /\ idx = 1
    /\ runs = 1
    /\ book = FromFile(BlankNote)
    /\ api_data = PyNone
    /\ updates = EmptyDict
    /\ trace = NoTrace
    /\ applied = <<>>

\* if not local_cover_path.exists(): ... else: updates['localCover'] = ...
CheckExists ==
    /\ \E i \in Ops :
          /\ race.ops[i].pc = "check"
          /\ MayEnter(i)
          /\ race' = IF CoverAbsent(disk, TargetPath)
                     THEN [race EXCEPT !.ops[i].pc = "get", !.ops[i].sawAbsent = TRUE]
                     ELSE [race EXCEPT !.ops[i].pc = "done", !.ops[i].set = TRUE]
    /\ UNCHANGED disk
    /\ RaceOnly

\* download_cover: self.session.get(url, timeout=15) and raise_for_status
GetCover ==
    /\ \E i \in Ops, ok \in BOOLEAN :
          /\ race.ops[i].pc = "get"
          /\ race' = IF ok
                     THEN [race EXCEPT !.ops[i].pc = "open", !.ops[i].fetched = TRUE]
                     ELSE [race EXCEPT !.ops[i].pc = "done", !.ops[i].fetched = TRUE]
    /\ UNCHANGED disk
    /\ RaceOnly

\* The disk with a file of the given content at the path
FileWritten(dsk, path, content) ==
    [p \in DOMAIN dsk \cup {path} |-> IF p = path THEN content ELSE dsk[p]]

\* download_cover: mkdir and open(save_path, 'wb'), which creates the file or
\* truncates the one that is there
OpenCover ==
    /\ \E i \in Ops, ok \in BOOLEAN :
          /\ race.ops[i].pc = "open"
          /\ IF ok
             THEN /\ disk' = FileWritten(disk, TargetPath, "partial")
                  /\ race' = [race EXCEPT !.ops[i].pc = "write", !.ops[i].wrote = TRUE]
             ELSE /\ race' = [race EXCEPT !.ops[i].pc = "done"]
                  /\ UNCHANGED disk
    /\ RaceOnly

\* download_cover: f.write(response.content) and return True, or the except
\* clause; then updates['localCover'] when it returned True
WriteCover ==
    /\ \E i \in Ops, ok \in BOOLEAN :
          /\ race.ops[i].pc = "write"
          /\ IF ok
             THEN /\ disk' = FileWritten(disk, TargetPath, "image")
                  /\ race' = [race EXCEPT !.ops[i].pc = "done", !.ops[i].set = TRUE]
             ELSE /\ race' = [race EXCEPT !.ops[i].pc = "done"]
                  /\ UNCHANGED disk
    /\ RaceOnly

NextRace == CheckExists \/ GetCover \/ OpenCover \/ WriteCover

SpecRace == InitRace /\ [][NextRace]_vars

-----------------------------------------------------------------------------
(* Two runs and one cover file: claim C25 *)

\* Both runs saw the file absent, and both fetched the image and wrote to
\* the path
BothFetchedAndWrote ==
    \E i, j \in Ops :
        /\ i # j
        /\ \A k \in {i, j} : /\ race.ops[k].sawAbsent
                              /\ race.ops[k].fetched
                              /\ race.ops[k].wrote

\* C25: check-then-act race in cover acquisition.  Two runs that are
\* serialized on the target path never both see the file absent and both
\* fetch and write it; a run that is alone in the step and wrote the file is
\* seen by the next.
C25_SerializedNeverBoth ==
    race.serialized =>
        /\ ~BothFetchedAndWrote
        /\ \A i \in Ops :
              race.ops[i].pc \in {"get", "open", "write"} =>
                  \A j \in Ops \ {i} : race.ops[j].pc \in {"check", "done"}

\* C25 witness: two concurrent runs both saw the file absent, and both
\* fetched the image and wrote it to the same path
C25_BothSawAbsentAndWrote ==
    /\ ~race.serialized
    /\ BothFetchedAndWrote
    /\ \A i \in Ops : race.ops[i].pc = "done" /\ race.ops[i].set
    /\ disk[TargetPath] = "image"

-----------------------------------------------------------------------------
(* The deduplicated list as a whole: claim C26 *)

RECURSIVE IsSubsequence(_, _)
\* sub is full with some elements left out, the others in their order
IsSubsequence(sub, full) ==
    IF sub = <<>> THEN TRUE
    ELSE IF full = <<>> THEN FALSE
    ELSE IF Head(sub) = Head(full) THEN IsSubsequence(Tail(sub), Tail(full))
    ELSE IsSubsequence(sub, Tail(full))

\* The key the loop computes for a record, "" when it has none
KeyOf(r) == IF DedupKey(r).exc THEN "" ELSE DedupKey(r).key

\* The deduplicated list is a subsequence of the raw list without two records
\* of one key, and with one record for every non-empty key of the raw list
DedupOutput(all_results, unique_results) ==
    /\ IsSubsequence(unique_results, all_results)
    /\ \A i, j \in 1..Len(unique_results) :
          i # j => KeyOf(unique_results[i]) # KeyOf(unique_results[j])
    /\ \A i \in 1..Len(all_results) :
          KeyOf(all_results[i]) # "" =>
              Cardinality({j \in 1..Len(unique_results) :
                              KeyOf(unique_results[j]) = KeyOf(all_results[i])}) = 1

\* C26: dedup output invariant.  Every search yields a deduplicated list that
\* is an order-preserving subsequence of the raw list, has no two records
\* with the same key, and has exactly one record for every non-empty key of
\* the raw list.
C26_DedupOutput ==
    searched.called =>
        /\ ~searched.raised
        /\ DedupOutput(searched.all_results, searched.unique_results)

\* What C26 leaves for the searches whose deduplication loop does not raise
DedupOutputWhenReturned ==
    (searched.called /\ ~searched.raised) =>
        DedupOutput(searched.all_results, searched.unique_results)

-----------------------------------------------------------------------------
(* The order of the cleaner's lookups: claim C27 *)

\* Which request a call is: the ISBN lookup at Google Books or at Open
\* Library, the title search at Google Books or at Open Library
RequestKind(call) ==
    IF call.src = "google"
    THEN (IF StartsWith(call.q, "isbn:") THEN "isbn@google" ELSE "title@google")
    ELSE IF call.src = "openlibrary_isbn" THEN "isbn@openlibrary"
    ELSE "title@openlibrary"

\* The requests of the last note, by kind
RequestKinds == [i \in 1..Len(trace.calls) |-> RequestKind(trace.calls[i])]

\* Every request the note allows, in the stated order: the ISBN lookup when
\* the note has an ISBN, then the title search when it has a title, each at
\* Google Books and then at Open Library
StatedRequests ==
    (IF Truthy(book.isbn) THEN <<"isbn@google", "isbn@openlibrary">> ELSE <<>>)
        \o (IF Truthy(book.title) THEN <<"title@google", "title@openlibrary">> ELSE <<>>)

EveryLookupGaveNothing ==
    /\ trace.response = "y"
    /\ ~Truthy(api_data)
    /\ Len(trace.calls) = 4
    /\ FromFile(vault[trace.i]) = book

-----------------------------------------------------------------------------
(* The overwrite prompt of the creator: claim C28 *)

\* C28: declined overwrite changes nothing.  When the note file exists and
\* the user does not answer 'y', create_book_note returns False and no file
\* was created or modified by the call, neither the note nor the cover image.
C28_DeclinedChangesNothing ==
    (created.called /\ created.declined) =>
        /\ ~created.ret
        /\ bookFiles = created.filesBefore
        /\ disk = created.diskBefore

\* What C28 leaves for the note file: a declined overwrite returns False and
\* leaves every note file as it was
DeclinedKeepsNotes ==
    (created.called /\ created.declined) =>
        /\ ~created.ret
        /\ created.filename \in DOMAIN created.filesBefore
        /\ bookFiles = created.filesBefore

-----------------------------------------------------------------------------
(* clean-book-notes.py: BookNotesCleaner.run on a vault of two notes *)

\* The notes of the shelf: complete, without a publisher, without a local
\* cover path
ShelfNotes == {NoteMissing({}), NoteMissing({"publisher"}), NoteMissing({"localCover"})}

InitShelf ==
    /\ vault \in {<<first, second>> : first \in ShelfNotes, second \in ShelfNotes}
    /\ disk \in {EmptyDict, [p \in {OldCoverPath} |-> "image"]}
    /\ catalog = FullRecord
    /\ cleanPc = "scan"
    /\ idx = 1
    /\ runs = 1
    /\ book = FromFile(BlankNote)
    /\ api_data = PyNone
    /\ updates = EmptyDict
    /\ trace = NoTrace
    /\ applied = [i \in 1..Len(vault) |-> NeverApplied]
    /\ bookFiles = EmptyDict
    /\ creates = 0
    /\ downloads = EmptyDict
    /\ created = NotCreated
    /\ entered = [title |-> "", author |-> ""]
    /\ olRecord = PyNone
    /\ searched = NotSearched
    /\ Uncalled

SpecShelf == InitShelf /\ [][NextClean]_vars

-----------------------------------------------------------------------------
(* The notes the cleaner does not fix: claim C29 *)

\* The step leaves the notes and the cover files as they are
NothingWritten == vault' = vault /\ disk' = disk /\ applied' = applied

\* C29: untouched notes in the cleaner loop.  A note without missing fields,
\* a note the user does not answer 'y' for, and every note after the answer
\* 'skip' cause no adapter call, no cover download and no write; 'skip' ends
\* the loop, so that no later note is processed in that run.
C29_UntouchedNotes ==
    /\ [](trace.response = "skip" =>
             \/ cleanPc = "done" /\ idx = trace.i
             \/ cleanPc = "scan" /\ idx = 1 /\ runs > 1)
    /\ [][/\ trace'.response # "y" =>
                /\ NothingWritten
                /\ trace'.calls = <<>>
                /\ ~trace'.cover.fetched
                /\ ~trace'.saved
          /\ (trace.response = "skip" /\ cleanPc = "done") =>
                /\ NothingWritten
                /\ trace' = trace
                /\ runs' = runs + 1]_vars

\* C29 witness: the user answered 'skip' at the first note, the run is over,
\* and the second note, which has missing fields, was not processed
C29_SkippedBeforeLastNote ==
    /\ trace.response = "skip"
    /\ cleanPc = "done"
    /\ trace.i = 1
    /\ Len(vault) = 2
    /\ GetMissingFields(FromFile(vault[2]), disk) # <<>>
    /\ applied[2] = NeverApplied

-----------------------------------------------------------------------------
(* create-book-notes.py: from a source's ISBNs to the slots of the template.
   An adapter formats the first entry of a reply, and create_book_note is
   called with the record it returned. *)

\* ISBN-10s and ISBN-13s as the sources send them, "" for none
Isbn10s == {"", "0441013597", "0-441-01359-7", "043942089X"}

Isbn13s == {"", "9780441013593", "978-0-441-01359-3"}

\* The values that are there, in the given order
Present(values) == SelectSeq(values, LAMBDA x : x # "")

\* A Google Books volume with the identifiers of a pair, and one of another type
VolumeWith(isbn_10, isbn_13, swapped) ==
    LET ten == IF isbn_10 # "" THEN <<Identifier("ISBN_10", isbn_10)>> ELSE <<>>
        thirteen == IF isbn_13 # "" THEN <<Identifier("ISBN_13", isbn_13)>> ELSE <<>>
    IN  [GoodVolume EXCEPT !.industryIdentifiers =
            PyList(<<Identifier("OTHER", "OCLC:1")>>
                       \o (IF swapped THEN thirteen \o ten ELSE ten \o thirteen))]
            @@ [subtitle |-> PyStr("A Novel")]

\* An Open Library doc with the isbns of a pair
DocWith(isbn_10, isbn_13, swapped) ==
    [GoodDoc EXCEPT !.isbn =
        PyList(Present(IF swapped THEN <<isbn_13, isbn_10>> ELSE <<isbn_10, isbn_13>>))]
        @@ [subtitle |-> PyStr("A Novel")]

InitFill ==
    /\ Uncalled
    /\ entered = [title |-> "Dune", author |-> "Herbert"]
    /\ olRecord = PyNone
    /\ searched = NotSearched
    /\ disk = EmptyDict
    /\ bookFiles = EmptyDict
    /\ creates = 0
    /\ downloads = EmptyDict
    /\ created = NotCreated
    /\ vault = <<>>
    /\ catalog = FullRecord
    /\ cleanPc = "done"
    /\ idx = 1
    /\ runs = 1
    /\ book = FromFile(BlankNote)
    /\ api_data = PyNone
    /\ updates = EmptyDict
    /\ trace = NoTrace
    /\ applied = <<>>

\* run: one search, then one create_book_note with the selected record
Searching == ~adapterCall.called

\* _search_google_books on a reply whose first item carries the pair
FormatGooglePair ==
    /\ Searching
    /\ \E isbn_10 \in Isbn10s, isbn_13 \in Isbn13s, swapped \in BOOLEAN :
          \E reply \in {HttpReply(200, Items(<<Item(VolumeWith(isbn_10, isbn_13, swapped))>>))} :
             adapterCall' = Called("_search_google_books", <<"Dune Herbert">>, FALSE,
                                   reply, PyNone, SearchGoogleBooks(reply))
    /\ AdapterOnly

\* _search_open_library on a reply whose first doc carries the pair
FormatOpenLibraryPair ==
    /\ Searching
    /\ \E isbn_10 \in Isbn10s, isbn_13 \in Isbn13s, swapped \in BOOLEAN :
          \E reply \in {HttpReply(200, Docs(<<DocWith(isbn_10, isbn_13, swapped)>>))} :
             adapterCall' = Called("_search_open_library", <<"Dune", "Herbert">>, FALSE,
                                   reply, PyNone, SearchOpenLibrary(reply))
    /\ AdapterOnly

\* create_book_note(selected_book) with the record the adapter returned
CreateFromRecord ==
    /\ creates < MaxCreates
    /\ adapterCall.called
    /\ ~Searching
    /\ ~created.called
    /\ adapterCall.value.t = "dict"
    /\ \E fault \in CreateFaults, overwrite \in {"y", "n"} :
          \E r \in {CreateBookNoteResult(adapterCall.value, disk, bookFiles, fault, overwrite)} :
             /\ disk' = r.disk
             /\ bookFiles' = r.files
             /\ created' = r.out
             /\ downloads' =
                   IF r.out.downloaded
                   THEN [p \in DOMAIN downloads \cup {r.out.coverPath} |->
                            IF p = r.out.coverPath
                            THEN (IF p \in DOMAIN downloads THEN downloads[p] ELSE 0) + 1
                            ELSE downloads[p]]
                   ELSE downloads
    /\ creates' = creates + 1
    /\ CreatorOnly

NextFill == FormatGooglePair \/ FormatOpenLibraryPair \/ CreateFromRecord

SpecFill == InitFill /\ [][NextFill]_vars

-----------------------------------------------------------------------------
(* The ISBN slots of a new note: claim C30 *)

\* The ISBN of n characters the source supplied in the first entry of its
\* reply, "" when it supplied none: Google Books labels it by type, Open
\* Library lists it among the isbns
SourceIsbn(reply, n) ==
    IF "items" \in DOMAIN reply.body
    THEN LET ids == reply.body.items.v[1].volumeInfo.industryIdentifiers.v
             type == PyStr(IF n = 10 THEN "ISBN_10" ELSE "ISBN_13")
             hits == {i \in 1..Len(ids) : ids[i].type = type}
         IN  IF hits = {} THEN ""
             ELSE ids[CHOOSE i \in hits : \A j \in hits : j <= i].identifier.v
    ELSE LET isbns == reply.body.docs.v[1].isbn.v
             hits == {i \in 1..Len(isbns) : Len(Replace(isbns[i], "-", "")) = n}
         IN  IF hits = {} THEN ""
             ELSE isbns[CHOOSE i \in hits : \A j \in hits : i <= j]

\* The note was made from the record of the last adapter call, and the
\* template was filled
FilledFromRecord ==
    /\ created.called
    /\ adapterCall.called
    /\ created.book = adapterCall.value
    /\ created.content.t = "dict"

\* C30: ISBN round trip into the note template.  For the isbn an adapter
\* builds from a source's ISBN-10 and ISBN-13 - both, one or the other -
\* _process_template puts the ISBN-10 into the isbn10 slot and the ISBN-13
\* into the isbn13 slot, never swapped, and leaves the slot of an absent one
\* empty.
C30_IsbnRoundTrip ==
    FilledFromRecord =>
        /\ created.content.isbn10 = SourceIsbn(adapterCall.reply, 10)
        /\ created.content.isbn13 = SourceIsbn(adapterCall.reply, 13)

\* C30 witness: Open Library listed the ISBN-13 before the ISBN-10, both
\* hyphenated, and the note has each in its own slot
C30_BothSlotsFilled ==
    /\ FilledFromRecord
    /\ created.ret
    /\ adapterCall.adapter = "_search_open_library"
    /\ adapterCall.reply.body.docs.v[1].isbn = PyList(<<"978-0-441-01359-3", "0-441-01359-7">>)
    /\ created.content.isbn10 = "0-441-01359-7"
    /\ created.content.isbn13 = "978-0-441-01359-3"

\* The one-sided cases of C30 happen too: a Google Books volume with an
\* ISBN-10 alone fills the isbn10 slot and leaves the isbn13 slot empty
OnlyIsbn10Filled ==
    /\ FilledFromRecord
    /\ adapterCall.adapter = "_search_google_books"
    /\ created.content.isbn10 = "043942089X"
    /\ created.content.isbn13 = ""

====
